---- MODULE Spec2Model ----
(***************************************************************************)
(* Verification model of the mindspring-processing backend: the rate       *)
(* limiter, the source ingestion task, the RAG chat path and the LLM       *)
(* client caches.  Each subsystem has its own specification over the       *)
(* shared variables; a subsystem's specification leaves the variables of   *)
(* the others unchanged.                                                   *)
(***************************************************************************)
EXTENDS Integers, Sequences, FiniteSets, TLC

(***************************************************************************)
(* Bounds of the model.                                                    *)
(***************************************************************************)
MaxLimit == 2        \* largest configured request limit N of "N/period"
RlPeriod == 2        \* window length in clock ticks
MaxRequests == 5     \* requests issued in one run of the rate limiter
MaxChatCalls == 2    \* concurrent generate_chat_response calls
MaxEmbedCalls == 2   \* concurrent generate_embeddings calls
MaxTexts == 2        \* texts in one generate_embeddings call
MaxDocLen == 3       \* longest extracted document text, in characters
ChunkSize == 2       \* chunk_size of the RAG ingest service, scaled down
Overlap == 1         \* overlap of the RAG ingest service, scaled down
TopK == 1            \* top_k of a retrieval, scaled down
MaxSends == 1        \* send_message requests in one run, all concurrent
MaxTimed == 2        \* requests in one run of the timeout middleware
RequestTimeout == 2  \* REQUEST_TIMEOUT_SECONDS in clock ticks
MaxWork == 3         \* awaits a handler goes through before it responds
MaxTextLen == 4      \* longest text given to the chunker, in characters
MaxChunkSize == 3    \* largest chunk_size given to the chunker
MaxOverlap == 3      \* largest overlap given to the chunker
MaxTopK == 2         \* largest top_k of a search_by_embedding call
MaxUploads == 3
MaxPending == 2
MaxOver == 2
MaxBatches == 4
MaxInputs == 4
MaxBatchSize == 2
MaxSessions == 2
MaxThread == 11
MaxRuns == 1         \* times one source is processed again
MaxTokens == 3       \* refresh tokens ever issued
MaxRefreshReqs == 2  \* refresh requests in flight together

VARIABLES
    \* ---- rate limiter (app/api/middleware/rate_limit.py) ----
    cacheUp,         \* whether the Redis behind the limiter answers
    rlCount,         \* key -> counter stored in Redis (0: key absent)
    rlTtl,           \* key -> remaining time to live of the key
    rlAllowed,       \* key -> requests the script allowed in the key's window
    rlFailOpen,      \* key -> requests let through by the except branch
    rlIssued,        \* requests dispatched so far
    rlLast,          \* the last response of dispatch
    \* ---- LLM client caches (app/infrastructure/real_llm_client.py) ----
    chatCache,       \* cache key "llm:chat:<md5>" -> cached text (NoValue: absent)
    embedCache,      \* text of key "embed:<model>:<md5(text)>" -> TRUE when cached
    chatCall,        \* generate_chat_response call -> its position and locals
    embCall,         \* generate_embeddings call -> its position and locals
    chatUpstream,    \* cache key -> chat completions answered by the API
    embSent,         \* text -> inputs of that text answered by the embedding API
    cacheWasDown,    \* whether the cache has been unreachable during the run
    \* ---- committed database rows ----
    notebooks,       \* the ids of the notebooks created
    srcStatus,       \* source -> committed Source.status ("absent": no row)
    srcError,        \* source -> committed Source.metadata_["error"] ("": none)
    srcNotebook,     \* source -> Source.notebook_id
    dbChunks,        \* source -> committed chunk rows of the source, in insertion order
    \* ---- background ingestion (source_processing_service.py, sources.py) ----
    task,            \* source -> its process_task: position, session state, locals
    lastSearch,      \* the chunks the last retrieval returned
    \* ---- conversations and chat (chat.py, chat_service.py) ----
    convNotebook,    \* conversation -> Conversation.notebook_id (NoNotebook: no row)
    dbMessages,      \* committed Message rows, in insertion order
    send,            \* send_message request -> position, session state, locals
    dbClock,         \* the database clock: now() of the last transaction begun
    lastListing,     \* the messages the last get_messages returned, in order
    \* ---- authorization of service operations ----
    history,         \* generation_history rows: <<user, source>> of summaries
    lastOp,          \* the last service operation: actor, entity owner, result
    \* ---- timeout middleware (app/api/middleware/timeout.py) ----
    timed,           \* request -> handler progress, time waited, response
    \* ---- one call of _chunk_text (rag_ingest_service.py) ----
    chunker,         \* arguments, loop variable start, chunks appended so far
    \* ---- one call of search_by_embedding (notebook_repository.py) ----
    searchCall,      \* its top_k and similarity_threshold and the list returned
    \* ---- soft delete (notebook_repository.py, conversation_repository.py) ----
    deleted,         \* ids of the rows whose deleted_at is set
    lastList,        \* the last list query: entity, include_deleted, rows returned
    \* ---- POST /notebooks/{id}/sources (api/v1/endpoints/sources.py) ----
    upload,          \* the last request: its inputs, the response, the rows created
    \* ---- NotebookService (app/domain/services/notebook_service.py) ----
    quota,           \* one user's committed live and deleted notebooks, creates in flight
    nbCall,          \* the last delete_notebook call and what it returned or raised
    \* ---- one call of _generate_embeddings_uncached (real_llm_client.py) ----
    batcher,         \* the gather, and per batch: task state, attempt, last reply
    \* ---- one call of generate_embeddings, its result (real_llm_client.py) ----
    embResult,       \* the texts, the cache hits, the batch size and the list returned
    \* ---- send_message_with_rag, steps 1 and 5 (chat_service.py) ----
    sess,            \* request -> the two tasks of the gather on its session
    thread,          \* the messages of one conversation, in order of created_at
    llmInput,        \* messages_for_llm of the last call, and the thread length then
    runs,            \* source -> times process_task was dispatched again for it
    rtok,            \* refresh token -> committed row ("absent", "valid", "revoked")
    refreshCall      \* POST /auth/refresh request -> position and result

rlVars == <<rlCount, rlTtl, rlAllowed, rlFailOpen, rlIssued, rlLast>>
llmVars == <<chatCache, embedCache, chatCall, embCall, chatUpstream, embSent>>
envVars == <<cacheUp, cacheWasDown>>
dbVars == <<notebooks, srcStatus, srcError, srcNotebook, dbChunks>>
ingVars == <<task, lastSearch>>
convVars == <<convNotebook, dbMessages>>
chatVars == <<send, dbClock, lastListing>>
tenVars == <<history, lastOp>>
tmVars == <<timed>>
sdVars == <<deleted, lastList>>
upVars == <<upload>>
lateVars == <<runs, rtok, refreshCall>>
loadVars == <<sess, thread, llmInput, lateVars>>
svcVars == <<quota, nbCall, batcher, embResult, loadVars>>
extVars == <<tmVars, chunker, searchCall, sdVars, upVars, svcVars>>

sysVars == <<rlVars, llmVars, dbVars, ingVars, convVars, chatVars, tenVars, extVars>>
vars == <<envVars, sysVars>>

\* What the actions of one subsystem leave unchanged in the others.
notRl == <<llmVars, dbVars, ingVars, convVars, chatVars, tenVars, extVars>>
notLlm == <<rlVars, dbVars, ingVars, convVars, chatVars, tenVars, extVars>>
notIng == <<envVars, rlVars, llmVars, convVars, chatVars, tenVars, extVars>>
notChat == <<envVars, rlVars, llmVars, dbVars, ingVars, tenVars, extVars>>
notTen == <<envVars, rlVars, llmVars, ingVars, chatVars, extVars>>
notExt == <<envVars, rlVars, llmVars, dbVars, ingVars, convVars, chatVars, tenVars>>
notSvc == <<notExt, tmVars, chunker, searchCall, sdVars, upVars>>

(***************************************************************************)
(* Rate limiter                                                            *)
(***************************************************************************)
Identities == {"user:u1", "ip:10.0.0.1"}
LimitedPaths == {"/api/v1/notebooks"}
ExemptPaths == {"/health"}
RlKeys == Identities \X LimitedPaths

\* The Lua script of _check_rate_limit, run atomically by Redis on one key.
\* current = 0 stands for "key absent" (redis.call('get') returned nil).
LuaScriptOffByOne(current, limit) ==
    IF current = 0
      THEN [allowed |-> TRUE, value |-> 1, remaining |-> limit - 1, setex |-> TRUE]
      ELSE IF current > limit
        THEN [allowed |-> FALSE, value |-> current, remaining |-> 0, setex |-> FALSE]
        ELSE [allowed |-> TRUE, value |-> current + 1,
              remaining |-> limit - (current + 1), setex |-> FALSE]

LuaScript(current, limit) ==
    IF current = 0
      THEN [allowed |-> TRUE, value |-> 1, remaining |-> limit - 1, setex |-> TRUE]
      ELSE IF current >= limit
        THEN [allowed |-> FALSE, value |-> current, remaining |-> 0, setex |-> FALSE]
        ELSE [allowed |-> TRUE, value |-> current + 1,
              remaining |-> limit - (current + 1), setex |-> FALSE]

\* RateLimitMiddleware.default_limit, parsed from RATE_LIMIT_DEFAULT.
default_limit == MaxLimit

\* dispatch for an exempt path: call_next without any check.
DispatchExempt(path) ==
    /\ rlIssued < MaxRequests
    /\ path \in ExemptPaths
    /\ rlIssued' = rlIssued + 1
    /\ rlLast' = [status |-> 200, remaining |-> 0, limited |-> FALSE]
    /\ UNCHANGED <<rlCount, rlTtl, rlAllowed, rlFailOpen, envVars, notRl>>

\* dispatch for a limited path while Redis answers: one evaluation of the script.
DispatchChecked(ident, path) ==
    /\ rlIssued < MaxRequests
    /\ path \in LimitedPaths
    /\ cacheUp
    /\ LET key == <<ident, path>>
           res == LuaScript(rlCount[key], default_limit)
       IN /\ rlCount' = [rlCount EXCEPT ![key] = res.value]
          /\ rlTtl' = [rlTtl EXCEPT ![key] = IF res.setex THEN RlPeriod ELSE @]
          /\ rlAllowed' = [rlAllowed EXCEPT ![key] = IF res.allowed THEN @ + 1 ELSE @]
          /\ rlLast' = [status |-> IF res.allowed THEN 200 ELSE 429,
                        remaining |-> res.remaining, limited |-> TRUE]
    /\ rlIssued' = rlIssued + 1
    /\ UNCHANGED <<rlFailOpen, envVars, notRl>>

\* dispatch for a limited path while Redis raises, were the except branch to
\* deny the request (fail-closed).
DispatchFailClosed(ident, path) ==
    /\ rlIssued < MaxRequests
    /\ path \in LimitedPaths
    /\ ~cacheUp
    /\ rlLast' = [status |-> 429, remaining |-> 0, limited |-> TRUE]
    /\ rlIssued' = rlIssued + 1
    /\ UNCHANGED <<rlCount, rlTtl, rlAllowed, rlFailOpen, envVars, notRl>>

\* dispatch for a limited path while Redis raises: the except branch returns
\* (True, 1, now + period).
DispatchFailOpen(ident, path) ==
    /\ rlIssued < MaxRequests
    /\ path \in LimitedPaths
    /\ ~cacheUp
    /\ rlFailOpen' = [rlFailOpen EXCEPT ![<<ident, path>>] = @ + 1]
    /\ rlLast' = [status |-> 200, remaining |-> 1, limited |-> TRUE]
    /\ rlIssued' = rlIssued + 1
    /\ UNCHANGED <<rlCount, rlTtl, rlAllowed, envVars, notRl>>

\* One second passes: Redis expires the keys whose time to live runs out,
\* which ends their window.
RlTick ==
    /\ \E k \in RlKeys : rlTtl[k] > 0
    /\ rlTtl' = [k \in RlKeys |-> IF rlTtl[k] > 0 THEN rlTtl[k] - 1 ELSE 0]
    /\ rlCount' = [k \in RlKeys |-> IF rlTtl[k] = 1 THEN 0 ELSE rlCount[k]]
    /\ rlAllowed' = [k \in RlKeys |-> IF rlTtl[k] = 1 THEN 0 ELSE rlAllowed[k]]
    /\ rlFailOpen' = [k \in RlKeys |-> IF rlTtl[k] = 1 THEN 0 ELSE rlFailOpen[k]]
    /\ UNCHANGED <<rlIssued, rlLast, envVars, notRl>>

RedisOutage ==
    /\ cacheUp
    /\ cacheUp' = FALSE
    /\ cacheWasDown' = TRUE
    /\ UNCHANGED sysVars

RedisRecovers ==
    /\ ~cacheUp
    /\ cacheUp' = TRUE
    /\ UNCHANGED <<cacheWasDown, sysVars>>

RlNext ==
    \/ \E p \in ExemptPaths : DispatchExempt(p)
    \/ \E i \in Identities, p \in LimitedPaths : DispatchChecked(i, p)
    \/ \E i \in Identities, p \in LimitedPaths : DispatchFailOpen(i, p)
    \/ RlTick
    \/ RedisOutage
    \/ RedisRecovers

(***************************************************************************)
(* LLM client: chat completion cache and embedding cache.  A run lies      *)
(* within one TTL of the entries it writes (600 s for chat, 86 400 s for   *)
(* embeddings), so no entry expires during it.                             *)
(***************************************************************************)
ChatMsgs == {"q1", "q2"}          \* message lists of a chat call
Temps == {7, 10}                  \* temperature in tenths: 0.7 and 1.0
ChatKeys == ChatMsgs \X Temps
NoValue == "<none>"               \* cache.get returned None
ChatContents == {"", "answer"}    \* choices[0].message.content of a reply
Texts == {"X.", "Y."}
NoVec == <<>>

\* The vector the embedding API answers for a text.
EmbeddingOf(t) == IF t = "X." THEN <<1, 0>> ELSE <<0, 1>>

\* _generate_cache_key: the MD5 of the stable JSON encoding of the data, here
\* the data itself (equal keys for equal data, distinct keys otherwise).
_generate_cache_key(prefix, data) == data

\* ICacheProvider.get of RedisCacheProvider: None on any error.
CacheGet(cache, key, none) == IF cacheUp THEN cache[key] ELSE none

\* ICacheProvider.set of RedisCacheProvider: errors are logged and swallowed.
CacheSet(cache, key, value) == IF cacheUp THEN [cache EXCEPT ![key] = value] ELSE cache

\* Python truthiness of a cached chat text: None and "" are false.
Truthy(v) == v /= NoValue /\ v /= ""

\* "temperature <= 0.7" of generate_chat_response.
Cacheable(temp) == temp <= 7

ChatCalls == 1..MaxChatCalls
EmbedCalls == 1..MaxEmbedCalls
IdleChat == [pc |-> "idle", msgs |-> "q1", temp |-> 7, result |-> NoValue]
IdleEmbed == [pc |-> "idle", texts |-> <<>>, toEmbed |-> <<>>]

\* The non-empty lists of at most MaxTexts texts.
TextLists == UNION {[1..n -> Texts] : n \in 1..MaxTexts}

\* How many entries of the list are the text t.
Occurrences(list, t) == Cardinality({i \in DOMAIN list : list[i] = t})

\* generate_chat_response up to the cache lookup: a hit returns the cached
\* text, a miss goes on to the API.
ChatLookup(p, m, t) ==
    /\ chatCall[p].pc = "idle"
    /\ LET key == _generate_cache_key("llm:chat", <<m, t>>)
           cached == IF Cacheable(t) THEN CacheGet(chatCache, key, NoValue) ELSE NoValue
       IN chatCall' = [chatCall EXCEPT ![p] =
              IF Truthy(cached)
                THEN [pc |-> "done", msgs |-> m, temp |-> t, result |-> cached]
                ELSE [pc |-> "post", msgs |-> m, temp |-> t, result |-> NoValue]]
    /\ UNCHANGED <<chatCache, embedCache, embCall, chatUpstream, embSent, envVars, notLlm>>

\* The POST to the chat endpoint answered 200 with a content.
ChatPostOk(p, content) ==
    /\ chatCall[p].pc = "post"
    /\ LET key == <<chatCall[p].msgs, chatCall[p].temp>>
       IN /\ chatUpstream' = [chatUpstream EXCEPT ![key] = @ + 1]
          /\ chatCall' = [chatCall EXCEPT ![p].result = content,
                 ![p].pc = IF Cacheable(chatCall[p].temp) THEN "set" ELSE "done"]
    /\ UNCHANGED <<chatCache, embedCache, embCall, embSent, envVars, notLlm>>

\* The POST raised (httpx.HTTPError) or the reply had no choices (KeyError):
\* the call raises and writes nothing.
ChatPostFails(p) ==
    /\ chatCall[p].pc = "post"
    /\ chatCall' = [chatCall EXCEPT ![p].pc = "error"]
    /\ UNCHANGED <<chatCache, embedCache, embCall, chatUpstream, embSent, envVars, notLlm>>

\* The write-through of the reply, then the return.
ChatCacheSet(p) ==
    /\ chatCall[p].pc = "set"
    /\ chatCache' = CacheSet(chatCache, <<chatCall[p].msgs, chatCall[p].temp>>,
                             chatCall[p].result)
    /\ chatCall' = [chatCall EXCEPT ![p].pc = "done"]
    /\ UNCHANGED <<embedCache, embCall, chatUpstream, embSent, envVars, notLlm>>

\* texts_to_embed of generate_embeddings: the texts, in order and with their
\* repetitions, whose cache lookup gave nothing.
TextsToEmbed(texts) ==
    LET miss(i) == CacheGet(embedCache, texts[i], NoVec) = NoVec
        F[i \in 0..Len(texts)] ==
            IF i = 0 THEN <<>>
            ELSE IF miss(i) THEN Append(F[i - 1], texts[i]) ELSE F[i - 1]
    IN F[Len(texts)]

\* generate_embeddings up to the cache lookups.
EmbedLookup(e, texts) ==
    /\ embCall[e].pc = "idle"
    /\ LET todo == TextsToEmbed(texts)
       IN embCall' = [embCall EXCEPT ![e] =
              [pc |-> IF todo = <<>> THEN "done" ELSE "uncached",
               texts |-> texts, toEmbed |-> todo]]
    /\ UNCHANGED <<chatCache, embedCache, chatCall, chatUpstream, embSent, envVars, notLlm>>

\* _generate_embeddings_uncached answered: every input of every batch was
\* embedded by the API.
EmbedUpstreamOk(e) ==
    /\ embCall[e].pc = "uncached"
    /\ embSent' = [t \in Texts |-> embSent[t] + Occurrences(embCall[e].toEmbed, t)]
    /\ embCall' = [embCall EXCEPT ![e].pc = "set"]
    /\ UNCHANGED <<chatCache, embedCache, chatCall, chatUpstream, envVars, notLlm>>

\* A batch failed after its retries: generate_embeddings raises.
EmbedUpstreamFails(e) ==
    /\ embCall[e].pc = "uncached"
    /\ embCall' = [embCall EXCEPT ![e].pc = "error"]
    /\ UNCHANGED <<chatCache, embedCache, chatCall, chatUpstream, embSent, envVars, notLlm>>

\* The cache writes of the new embeddings, then the return.
EmbedCacheSet(e) ==
    /\ embCall[e].pc = "set"
    /\ embedCache' = [t \in Texts |->
          IF cacheUp /\ Occurrences(embCall[e].toEmbed, t) > 0
            THEN EmbeddingOf(t) ELSE embedCache[t]]
    /\ embCall' = [embCall EXCEPT ![e].pc = "done"]
    /\ UNCHANGED <<chatCache, chatCall, chatUpstream, embSent, envVars, notLlm>>

ChatCacheNext ==
    \/ \E p \in ChatCalls, m \in ChatMsgs, t \in Temps : ChatLookup(p, m, t)
    \/ \E p \in ChatCalls, c \in ChatContents : ChatPostOk(p, c)
    \/ \E p \in ChatCalls : ChatPostFails(p)
    \/ \E p \in ChatCalls : ChatCacheSet(p)
    \/ RedisOutage
    \/ RedisRecovers

EmbedNext ==
    \/ \E e \in EmbedCalls, texts \in TextLists : EmbedLookup(e, texts)
    \/ \E e \in EmbedCalls : EmbedUpstreamOk(e)
    \/ \E e \in EmbedCalls : EmbedUpstreamFails(e)
    \/ \E e \in EmbedCalls : EmbedCacheSet(e)
    \/ RedisOutage
    \/ RedisRecovers

(***************************************************************************)
(* Source ingestion: the upload endpoint creates the Source row and queues *)
(* process_task, which runs process_source_file on a session of its own    *)
(* and commits at the end.  Other sessions read committed rows only.       *)
(***************************************************************************)
Users == {"A", "B"}
NoUser == "<no user>"
Sources == {"s1", "s2"}
Notebooks == {"nA", "nB"}

\* Ids are random UUIDs; the model reserves each id for the user who will
\* create the row, so the owner_id of a notebook is a function of its id.
OwnerOf(n) == IF n = "nA" THEN "A" ELSE "B"

\* NotebookService.max_notebooks_per_user as the container sets it.
max_notebooks_per_user == 50
NoNotebook == "<no notebook>"
NoSource == "<no source>"
Sims == {50, 90}     \* cosine similarity of a chunk to the query, in hundredths

\* settings.VECTOR_SEARCH_THRESHOLD (0.7), in hundredths.
VECTOR_SEARCH_THRESHOLD == 70

Min(a, b) == IF a <= b THEN a ELSE b
Max(a, b) == IF a >= b THEN a ELSE b

\* The while loop of _chunk_text from the offset start on, for a text of
\* len characters: the offsets of the chunks it appends.
RECURSIVE ChunkLoop(_, _, _, _)
ChunkLoop(start, len, chunk_size, overlap) ==
    LET end == Min(start + chunk_size, len)
        piece == [start |-> start, end |-> end]
        new_start == end - overlap
    IN IF end >= len
         THEN <<piece>>
         ELSE <<piece>> \o ChunkLoop(
                  IF new_start <= start
                    THEN start + Max(1, chunk_size - overlap)
                    ELSE new_start,
                  len, chunk_size, overlap)

_chunk_text(len, chunk_size, overlap) ==
    IF len = 0 THEN <<>> ELSE ChunkLoop(0, len, chunk_size, overlap)

\* chunks_to_create of ingest_document, numbered from 1 instead of 0.
chunks_to_createFromOne(chunks_data, embeddings) ==
    [i \in 1..Min(Len(chunks_data), Len(embeddings)) |->
        [idx |-> i, sim |-> embeddings[i]]]

\* chunks_to_create of ingest_document: enumerate(zip(chunks_data, embeddings))
\* gives the i-th pair the chunk_index i, counted from 0.
chunks_to_create(chunks_data, embeddings) ==
    [i \in 1..Min(Len(chunks_data), Len(embeddings)) |->
        [idx |-> i - 1, sim |-> embeddings[i]]]

IdleTask == [pc |-> "none", tx |-> "active", pStatus |-> "unset", pError |-> "",
             pChunks |-> <<>>, text |-> 0, rows |-> <<>>]

\* The update of the status alone, as the except branch of
\* process_content_in_background writes it: metadata_ is left as it was.
_mark_failed_status_only(t, error_message) ==
    IF t.tx = "active"
      THEN [t EXCEPT !.pStatus = "failed", !.pc = "commit"]
      ELSE [t EXCEPT !.pc = "commit"]

\* _mark_failed: the update of status and metadata_ in the task's session; an
\* exception of the update (the session's transaction has failed) is logged
\* and swallowed.
_mark_failed(t, error_message) ==
    IF t.tx = "active"
      THEN [t EXCEPT !.pStatus = "failed", !.pError = error_message, !.pc = "commit"]
      ELSE [t EXCEPT !.pc = "commit"]

\* The chunk rows of a source that a session other than the writing one sees,
\* were the writing session to commit each statement at once.
VisibleChunksAutocommit(s) == dbChunks[s] \o task[s].pChunks

\* The chunk rows of a source that a session other than the writing one sees:
\* the committed ones (AsyncSessionFactory: autocommit=False).
VisibleChunks(s) == dbChunks[s]

\* A stored vector is known by its cosine similarity to the query in
\* hundredths, or is the vector of norm 0.
ZeroVec == 999
StoredSims == Sims \cup {-50, ZeroVec}

\* The cosine distance pgvector orders by: 1 - similarity, and NaN, which
\* PostgreSQL sorts after every number, for a vector of norm 0.
NaNDistance == 1000
CosineDistance(sim) == IF sim = ZeroVec THEN NaNDistance ELSE 100 - sim

\* _calculate_cosine_similarity: 0.0 when a norm is 0.
_calculate_cosine_similarity(sim) == IF sim = ZeroVec THEN 0 ELSE sim

\* The threshold test, were it to let every candidate pass.
PassesThresholdAlways(similarity, similarity_threshold) == TRUE

\* "similarity >= similarity_threshold" of search_by_embedding.
PassesThreshold(similarity, similarity_threshold) == similarity >= similarity_threshold

\* ORDER BY cosine_distance over a set of rows: every sequence of all the rows
\* in non-decreasing distance.
RECURSIVE OrderedByDistance(_)
OrderedByDistance(rows) ==
    IF rows = {} THEN {<<>>}
    ELSE LET nearest == {c \in rows :
                            \A d \in rows : CosineDistance(c.sim) <= CosineDistance(d.sim)}
         IN UNION {{<<c>> \o q : q \in OrderedByDistance(rows \ {c})} : c \in nearest}

\* search_by_embedding: the chunks of the notebook (and of the source, if one
\* is given) ordered by cosine distance, cut to top_k * 3 candidates, filtered
\* by the threshold on the similarity computed for each, which is stored as
\* its metadata similarity_score, and cut to top_k.  Rows at the same distance
\* come in either order: the set of possible results.
search_by_embedding(notebook_id, source_id, top_k, similarity_threshold) ==
    LET cands == {c \in [src : Sources, idx : 0..(MaxDocLen + 1), sim : StoredSims] :
                    /\ srcNotebook[c.src] = notebook_id
                    /\ source_id /= NoSource => c.src = source_id
                    /\ \E i \in DOMAIN VisibleChunks(c.src) :
                          /\ VisibleChunks(c.src)[i].idx = c.idx
                          /\ VisibleChunks(c.src)[i].sim = c.sim}
        orders == OrderedByDistance(cands)
        above(c) == PassesThreshold(_calculate_cosine_similarity(c.sim),
                                    similarity_threshold)
        cut(q, k) == SubSeq(q, 1, Min(Len(q), k))
        scored(q) == [i \in DOMAIN q |->
                        [src |-> q[i].src, idx |-> q[i].idx, sim |-> q[i].sim,
                         score |-> _calculate_cosine_similarity(q[i].sim)]]
    IN {scored(cut(SelectSeq(cut(q, top_k * 3), above), top_k)) : q \in orders}

\* create_notebook: ForbiddenError at the limit, else the row is committed.
create_notebook(u, n) ==
    /\ n \notin notebooks
    /\ OwnerOf(n) = u
    /\ Cardinality({m \in notebooks : OwnerOf(m) = u}) < max_notebooks_per_user
    /\ notebooks' = notebooks \cup {n}
    /\ UNCHANGED <<srcStatus, srcError, srcNotebook, dbChunks, ingVars, convVars,
                   chatVars, tenVars, envVars, rlVars, llmVars, extVars>>

\* The upload endpoint for one accepted file: the Source row in status
\* processing is committed and process_task is queued.
IngestUpload(s, n) ==
    /\ srcStatus[s] = "absent"
    /\ n \in notebooks
    /\ srcStatus' = [srcStatus EXCEPT ![s] = "processing"]
    /\ srcNotebook' = [srcNotebook EXCEPT ![s] = n]
    /\ task' = [task EXCEPT ![s] = [IdleTask EXCEPT !.pc = "queued"]]
    /\ UNCHANGED <<notebooks, srcError, dbChunks, lastSearch, notIng>>

\* process_source_file: the source is read and set to processing.
TaskStart(s) ==
    /\ task[s].pc = "queued"
    /\ task' = [task EXCEPT ![s].pStatus = "processing", ![s].pc = "fetch"]
    /\ UNCHANGED <<dbVars, lastSearch, notIng>>

\* The text is fetched through the signed URL; an empty or blank text (len 0)
\* marks the source failed.
TaskFetchOk(s, len) ==
    /\ task[s].pc = "fetch"
    /\ task' = [task EXCEPT ![s] =
          IF len = 0 THEN _mark_failed(@, "No text extracted from file")
                     ELSE [@ EXCEPT !.text = len, !.pc = "ingest"]]
    /\ UNCHANGED <<dbVars, lastSearch, notIng>>

\* The storage provider or the extraction raises ExternalServiceError.
TaskFetchFails(s) ==
    /\ task[s].pc = "fetch"
    /\ task' = [task EXCEPT ![s] = _mark_failed(@, "Processing error")]
    /\ UNCHANGED <<dbVars, lastSearch, notIng>>

\* ingest_document up to the embeddings: the text is chunked and every chunk
\* gets its vector.
TaskEmbedOk(s, embeddings) ==
    /\ task[s].pc = "ingest"
    /\ LET chunks_data == _chunk_text(task[s].text, ChunkSize, Overlap)
       IN /\ chunks_data /= <<>>
          /\ Len(embeddings) = Len(chunks_data)
          /\ task' = [task EXCEPT ![s].rows = chunks_to_create(chunks_data, embeddings),
                                  ![s].pc = "store"]
    /\ UNCHANGED <<dbVars, lastSearch, notIng>>

\* generate_embeddings raises: ingest_document raises ExternalServiceError.
TaskEmbedFails(s) ==
    /\ task[s].pc = "ingest"
    /\ task' = [task EXCEPT ![s] = _mark_failed(@, "Processing error")]
    /\ UNCHANGED <<dbVars, lastSearch, notIng>>

\* bulk_create flushes the rows, then the source is set to completed.
TaskStoreOk(s) ==
    /\ task[s].pc = "store"
    /\ task' = [task EXCEPT ![s].pChunks = task[s].rows, ![s].pStatus = "completed",
                            ![s].pc = "commit"]
    /\ UNCHANGED <<dbVars, lastSearch, notIng>>

\* The flush of bulk_create raises (the database rejects a row): the session's
\* transaction is rolled back and stays failed until session.rollback(), which
\* nothing calls; the except branch runs _mark_failed on that session.
TaskStoreFails(s) ==
    /\ task[s].pc = "store"
    /\ task' = [task EXCEPT ![s] =
          _mark_failed([@ EXCEPT !.tx = "failed", !.pStatus = "unset"],
                       "Unexpected system error")]
    /\ UNCHANGED <<dbVars, lastSearch, notIng>>

\* process_task: bg_db.commit() after process_source_file returned, then the
\* session closes.  On a failed transaction commit raises, which is logged.
TaskCommit(s) ==
    /\ task[s].pc = "commit"
    /\ LET t == task[s]
           ok == t.tx = "active"
       IN /\ srcStatus' = [srcStatus EXCEPT ![s] =
                 IF ok /\ t.pStatus /= "unset" THEN t.pStatus ELSE @]
          /\ srcError' = [srcError EXCEPT ![s] = IF ok THEN t.pError ELSE @]
          /\ dbChunks' = [dbChunks EXCEPT ![s] = IF ok THEN @ \o t.pChunks ELSE @]
    /\ task' = [task EXCEPT ![s] = [IdleTask EXCEPT !.pc = "ended"]]
    /\ UNCHANGED <<notebooks, srcNotebook, lastSearch, notIng>>

\* A retrieval over a notebook, as search_by_text runs it from another session.
Search(n) ==
    /\ \E res \in search_by_embedding(n, NoSource, TopK, VECTOR_SEARCH_THRESHOLD) :
          lastSearch' = res
    /\ UNCHANGED <<dbVars, task, notIng>>

IngestNext ==
    \/ \E u \in Users, n \in Notebooks : create_notebook(u, n)
    \/ \E s \in Sources, n \in Notebooks : IngestUpload(s, n)
    \/ \E s \in Sources : TaskStart(s)
    \/ \E s \in Sources, len \in 0..MaxDocLen : TaskFetchOk(s, len)
    \/ \E s \in Sources : TaskFetchFails(s)
    \/ \E s \in Sources, n \in 1..MaxDocLen : \E e \in [1..n -> Sims] : TaskEmbedOk(s, e)
    \/ \E s \in Sources : TaskEmbedFails(s)
    \/ \E s \in Sources : TaskStoreOk(s)
    \/ \E s \in Sources : TaskStoreFails(s)
    \/ \E s \in Sources : TaskCommit(s)
    \/ \E n \in Notebooks : Search(n)

(***************************************************************************)
(* Conversations and the RAG chat request.  A send_message request runs on *)
(* its own session: the rows it flushes are pending until db.commit().     *)
(***************************************************************************)
Convs == {"cA", "cB"}
ChatSources == {"s1"}    \* the sources uploaded in the runs of the chat requests

\* The user_id of a conversation: as for notebooks, a function of the id.
UserOf(c) == IF c = "cA" THEN "A" ELSE "B"

Sends == 1..MaxSends
\* tx is the state of the request's database transaction, retrieval and llm
\* are the outcomes of search_by_text and of generate_chat_response, fault
\* tells that the request ended by a failure or cancellation of another step.
IdleSend == [pc |-> "idle", conv |-> "cA", created_at |-> 0, chunk_ids |-> <<>>,
             content |-> "", pending |-> <<>>, flushed |-> 0, tx |-> "active",
             retrieval |-> "none", llm |-> "none", fault |-> FALSE]
Apology == "I apologize, but I'm having trouble generating a response right now."

\* An upload of one accepted file whose process_task ran to its commit without
\* a failure: IngestUpload, TaskStart, TaskFetchOk, TaskEmbedOk, TaskStoreOk and
\* TaskCommit in one step.
IngestCompleted(s, n, len, embeddings) ==
    /\ srcStatus[s] = "absent"
    /\ n \in notebooks
    /\ LET chunks_data == _chunk_text(len, ChunkSize, Overlap)
       IN /\ Len(embeddings) = Len(chunks_data)
          /\ dbChunks' = [dbChunks EXCEPT ![s] = chunks_to_create(chunks_data, embeddings)]
    /\ srcStatus' = [srcStatus EXCEPT ![s] = "completed"]
    /\ srcNotebook' = [srcNotebook EXCEPT ![s] = n]
    /\ task' = [task EXCEPT ![s] = [IdleTask EXCEPT !.pc = "ended"]]
    /\ UNCHANGED <<notebooks, srcError, lastSearch, notIng>>

\* POST /conversations: the row is added with the notebook_id of the request
\* and the caller as user_id, and committed; the notebook must exist (foreign
\* key), its owner is not looked at.
create_conversation(u, c, n) ==
    /\ convNotebook[c] = NoNotebook
    /\ UserOf(c) = u
    /\ n \in notebooks
    /\ convNotebook' = [convNotebook EXCEPT ![c] = n]
    /\ UNCHANGED <<dbMessages, dbVars, ingVars, chatVars, tenVars, envVars, rlVars,
                   llmVars, extVars>>

\* MessageRepository.create, were it to commit the row it adds.
message_repo_createCommitting(r, msg, next_pc) ==
    /\ send' = [send EXCEPT ![r].pc = next_pc]
    /\ dbMessages' = Append(dbMessages, msg)

\* MessageRepository.create: the row is added to the session and flushed.
message_repo_create(r, msg, next_pc) ==
    /\ send' = [send EXCEPT ![r].pending = Append(@, msg), ![r].pc = next_pc]
    /\ UNCHANGED dbMessages

\* The Message row of a request; created_at is the server default now(), the
\* start time of the request's transaction.
MessageRow(r, role, content) ==
    [req |-> r, conv |-> send[r].conv, role |-> role, content |-> content,
     chunk_ids |-> send[r].chunk_ids, created_at |-> send[r].created_at]

\* send_message with use_rag for a user message, up to the history: the
\* conversation is looked up for the caller; a conversation that is missing or
\* another user's ends the request with 404 and nothing written.
SendBegin(r, u, c) ==
    /\ send[r].pc = "idle"
    /\ \A q \in Sends : q < r => send[q].pc /= "idle"
    /\ convNotebook[c] /= NoNotebook
    /\ UserOf(c) = u
    /\ dbClock' = dbClock + 1
    /\ send' = [send EXCEPT ![r] =
          [IdleSend EXCEPT !.pc = "retrieve", !.conv = c, !.created_at = dbClock + 1]]
    /\ UNCHANGED <<lastListing, convVars, notChat>>

\* search_by_text over the conversation's notebook answered.
SendRetrieve(r) ==
    /\ send[r].pc = "retrieve"
    /\ \E res \in search_by_embedding(convNotebook[send[r].conv], NoSource, TopK,
                                      VECTOR_SEARCH_THRESHOLD) :
          send' = [send EXCEPT ![r].pc = "generate", ![r].retrieval = "ok",
                     ![r].chunk_ids = [i \in DOMAIN res |-> <<res[i].src, res[i].idx>>]]
    /\ UNCHANGED <<dbClock, lastListing, convVars, notChat>>

\* search_by_text raised before its statement reached the database (the query
\* embedding failed): the except branch logs, the request continues without
\* context.
SendRetrieveFails(r) ==
    /\ send[r].pc = "retrieve"
    /\ send' = [send EXCEPT ![r].pc = "generate", ![r].chunk_ids = <<>>,
                            ![r].retrieval = "failed"]
    /\ UNCHANGED <<dbClock, lastListing, convVars, notChat>>

\* The statement of search_by_embedding failed in the database (rejected, or
\* cancelled by the command timeout): the except branch logs and the request
\* continues without context, on a session whose transaction the database
\* has aborted; nothing rolls it back before the messages are stored.
SendSearchRejected(r) ==
    /\ send[r].pc = "retrieve"
    /\ send' = [send EXCEPT ![r].pc = "generate", ![r].chunk_ids = <<>>,
                            ![r].retrieval = "failed", ![r].tx = "aborted"]
    /\ UNCHANGED <<dbClock, lastListing, convVars, notChat>>

\* generate_chat_response answered, or raised, were the exception to leave
\* send_message_with_rag: the endpoint rolls back and answers 500.
SendGenerateRaising(r, ok) ==
    /\ send[r].pc = "generate"
    /\ send' = [send EXCEPT ![r] =
          IF ok THEN [@ EXCEPT !.pc = "storeUser", !.llm = "ok", !.content = "answer"]
                ELSE [IdleSend EXCEPT !.pc = "failed", !.llm = "failed",
                                      !.retrieval = send[r].retrieval]]
    /\ UNCHANGED <<dbClock, lastListing, convVars, notChat>>

\* generate_chat_response answered, or raised and the apology stands in.
SendGenerate(r, ok) ==
    /\ send[r].pc = "generate"
    /\ send' = [send EXCEPT ![r].pc = "storeUser",
                            ![r].llm = IF ok THEN "ok" ELSE "failed",
                            ![r].content = IF ok THEN "answer" ELSE Apology]
    /\ UNCHANGED <<dbClock, lastListing, convVars, notChat>>

\* add_message for the user message.
SendStoreUser(r) ==
    /\ send[r].pc = "storeUser"
    /\ send[r].tx = "active"
    /\ message_repo_create(r, MessageRow(r, "user", "question"), "storeAssistant")
    /\ UNCHANGED <<dbClock, lastListing, convNotebook, notChat>>

\* add_message for the user message on an aborted transaction: its first
\* statement (get_conversation) raises, the endpoint rolls back and answers
\* 500.
SendStoreOnAborted(r) ==
    /\ send[r].pc = "storeUser"
    /\ send[r].tx = "aborted"
    /\ send' = [send EXCEPT ![r] =
          [IdleSend EXCEPT !.pc = "failed", !.retrieval = send[r].retrieval,
                           !.llm = send[r].llm, !.tx = "aborted"]]
    /\ UNCHANGED <<dbClock, lastListing, convVars, notChat>>

\* add_message for the assistant message.
SendStoreAssistant(r) ==
    /\ send[r].pc = "storeAssistant"
    /\ message_repo_create(r, MessageRow(r, "assistant", send[r].content), "commit")
    /\ UNCHANGED <<dbClock, lastListing, convNotebook, notChat>>

\* db.commit() of the endpoint: the pending rows become visible together.
SendCommit(r) ==
    /\ send[r].pc = "commit"
    /\ dbMessages' = dbMessages \o send[r].pending
    /\ send' = [send EXCEPT ![r] =
          [IdleSend EXCEPT !.pc = "done", !.llm = send[r].llm]]
    /\ UNCHANGED <<dbClock, lastListing, convNotebook, notChat>>

\* An await of the request raises, or the timeout cancels it: the session is
\* rolled back or closed without a commit.  flushed keeps how many rows the
\* session had flushed by then; fault marks the request as ended by such a
\* failure, whatever retrieval and chat completion had given.
SendFails(r) ==
    /\ send[r].pc \in {"retrieve", "generate", "storeUser", "storeAssistant", "commit"}
    /\ send' = [send EXCEPT ![r] =
          [IdleSend EXCEPT !.pc = "failed", !.flushed = Len(send[r].pending),
                           !.fault = TRUE]]
    /\ UNCHANGED <<dbClock, lastListing, convVars, notChat>>

\* The rows of a SELECT ... ORDER BY created_at over the messages of a
\* conversation: rows with the same created_at come in either order.
OrderedByCreatedAt(c) ==
    LET rows == {dbMessages[i] : i \in {j \in DOMAIN dbMessages : dbMessages[j].conv = c}}
        n == Cardinality(rows)
    IN {q \in [1..n -> rows] :
          /\ \A i, j \in 1..n : i /= j => q[i] /= q[j]
          /\ \A i, j \in 1..n : i < j => q[i].created_at <= q[j].created_at}

\* GET /conversations/{id}/messages by the conversation's user.
get_messages(u, c) ==
    /\ convNotebook[c] /= NoNotebook
    /\ UserOf(c) = u
    /\ \E q \in OrderedByCreatedAt(c) : lastListing' = q
    /\ UNCHANGED <<send, dbClock, convVars, notChat>>

ChatNext ==
    \/ \E u \in Users, n \in Notebooks : create_notebook(u, n)
    \/ \E s \in ChatSources, n \in Notebooks, len \in 1..MaxDocLen :
          \E k \in 1..MaxDocLen : \E e \in [1..k -> Sims] : IngestCompleted(s, n, len, e)
    \/ \E u \in Users, c \in Convs, n \in Notebooks : create_conversation(u, c, n)
    \/ \E r \in Sends, u \in Users, c \in Convs : SendBegin(r, u, c)
    \/ \E r \in Sends : SendRetrieve(r)
    \/ \E r \in Sends : SendRetrieveFails(r)
    \/ \E r \in Sends : SendSearchRejected(r)
    \/ \E r \in Sends, ok \in BOOLEAN : SendGenerate(r, ok)
    \/ \E r \in Sends : SendStoreUser(r)
    \/ \E r \in Sends : SendStoreOnAborted(r)
    \/ \E r \in Sends : SendStoreAssistant(r)
    \/ \E r \in Sends : SendCommit(r)
    \/ \E r \in Sends : SendFails(r)
    \/ \E u \in Users, c \in Convs : get_messages(u, c)

(***************************************************************************)
(* Service operations on another user's entity.                            *)
(***************************************************************************)
\* NotebookService.get_notebook.
get_notebook(u, n) ==
    /\ lastOp' = [op |-> "get_notebook", actor |-> u,
                  owner |-> IF n \in notebooks THEN OwnerOf(n) ELSE NoUser,
                  result |-> IF n \in notebooks /\ OwnerOf(n) = u
                               THEN "ok" ELSE "NotFoundError"]
    /\ UNCHANGED <<history, dbVars, convVars, notTen>>

\* POST /sources/{id}/generate/summary: SourceGenerationService.generate_summary
\* and the commit of the history row.
generate_summary(u, s, llm_ok) ==
    /\ LET result == IF srcStatus[s] = "absent" THEN "NotFoundError"
                     ELSE IF dbChunks[s] = <<>> THEN "ValidationError"
                     ELSE IF ~llm_ok THEN "error"
                     ELSE "ok"
       IN /\ lastOp' = [op |-> "generate_summary", actor |-> u,
                        owner |-> IF srcStatus[s] = "absent" THEN NoUser
                                  ELSE OwnerOf(srcNotebook[s]),
                        result |-> result]
          /\ history' = IF result = "ok" THEN history \cup {<<u, s>>} ELSE history
    /\ UNCHANGED <<dbVars, convVars, notTen>>

\* ChatService.list_conversations: the conversations of the notebook, whoever
\* asks.
list_conversations(u, n) ==
    /\ lastOp' = [op |-> "list_conversations", actor |-> u,
                  owner |-> IF n \in notebooks THEN OwnerOf(n) ELSE NoUser,
                  result |-> "ok"]
    /\ UNCHANGED <<history, dbVars, convVars, notTen>>

TenancyNext ==
    \/ \E u \in Users, n \in Notebooks : create_notebook(u, n)
    \/ \E s \in ChatSources, n \in Notebooks, len \in 1..MaxDocLen :
          \E k \in 1..MaxDocLen : \E e \in [1..k -> Sims] : IngestCompleted(s, n, len, e)
    \/ \E u \in Users, c \in Convs, n \in Notebooks : create_conversation(u, c, n)
    \/ \E u \in Users, n \in Notebooks : get_notebook(u, n)
    \/ \E u \in Users, s \in ChatSources, ok \in BOOLEAN : generate_summary(u, s, ok)
    \/ \E u \in Users, n \in Notebooks : list_conversations(u, n)

(***************************************************************************)
(* Timeout middleware.  create_app adds it after the rate limiter and the  *)
(* logging middleware, so it wraps both and the handler: dispatch awaits   *)
(* asyncio.wait_for(call_next(request), timeout).                          *)
(***************************************************************************)
Timed == 1..MaxTimed
IdleTimed == [pc |-> "idle", need |-> 1, steps |-> 0, waited |-> 0, handler |-> "none",
              status |-> 0, code |-> "", late |-> 0]

\* dispatch: call_next starts the rest of the stack (the handler, which needs
\* `need` awaits to respond) in a task of the middleware's task group and
\* waits for the start of its response.
TmDispatch(r, need) ==
    /\ timed[r].pc = "idle"
    /\ timed' = [timed EXCEPT ![r] =
          [IdleTimed EXCEPT !.pc = "waiting", !.need = need, !.handler = "running"]]
    /\ UNCHANGED <<chunker, searchCall, sdVars, upVars, svcVars, notExt>>

\* One await of the handler completes.  With the last one the handler
\* responds: call_next returns the response if dispatch still waits for it,
\* else the message is dropped.  late counts the awaits completed after the
\* response of the request was decided.
TmHandlerStep(r) ==
    /\ timed[r].handler = "running"
    /\ LET t == timed[r]
           last == t.steps + 1 = t.need
       IN timed' = [timed EXCEPT ![r] =
              [t EXCEPT !.steps = t.steps + 1,
                        !.late = IF t.pc = "responded" THEN t.late + 1 ELSE t.late,
                        !.handler = IF last THEN "completed" ELSE "running",
                        !.pc = IF last THEN "responded" ELSE t.pc,
                        !.status = IF last /\ t.pc = "waiting" THEN 200 ELSE t.status]]
    /\ UNCHANGED <<chunker, searchCall, sdVars, upVars, svcVars, notExt>>

\* A second passes while dispatch waits.
TmTick(r) ==
    /\ timed[r].pc = "waiting"
    /\ timed[r].waited < RequestTimeout
    /\ timed' = [timed EXCEPT ![r].waited = @ + 1]
    /\ UNCHANGED <<chunker, searchCall, sdVars, upVars, svcVars, notExt>>

\* The timeout of wait_for elapses: the awaited call_next(request) is
\* cancelled, asyncio.TimeoutError is caught and the 504 body is returned.
\* What is cancelled is the wait for the response; the handler runs in
\* another task, which BaseHTTPMiddleware cancels after the response is sent
\* or leaves running to its end, depending on the release of the framework.
TmDeadline(r, cancels) ==
    /\ timed[r].pc = "waiting"
    /\ timed[r].waited = RequestTimeout
    /\ timed' = [timed EXCEPT ![r].pc = "responded", ![r].status = 504,
                              ![r].code = "REQUEST_TIMEOUT",
                              ![r].handler = IF cancels THEN "cancelled" ELSE "running"]
    /\ UNCHANGED <<chunker, searchCall, sdVars, upVars, svcVars, notExt>>

TimeoutNext ==
    \/ \E r \in Timed, need \in 1..MaxWork : TmDispatch(r, need)
    \/ \E r \in Timed : TmHandlerStep(r)
    \/ \E r \in Timed : TmTick(r)
    \/ \E r \in Timed, cancels \in BOOLEAN : TmDeadline(r, cancels)

(***************************************************************************)
(* The chunker, one iteration of its while loop at a time.                 *)
(***************************************************************************)
IdleChunker == [pc |-> "idle", len |-> 0, chunk_size |-> 1, overlap |-> 0,
                start |-> 0, chunks |-> <<>>, iters |-> 0]

\* The next start, were it end - overlap without the check for progress.
NextStartUnguarded(start, end, chunk_size, overlap) == end - overlap

\* The next value of start after a chunk [start, end) that did not reach the
\* end of the text.
NextStart(start, end, chunk_size, overlap) ==
    LET new_start == end - overlap
    IN IF new_start <= start THEN start + Max(1, chunk_size - overlap) ELSE new_start

\* _chunk_text is called: the empty text returns [] at once, else start = 0.
ChunkTextCall(len, chunk_size, overlap) ==
    /\ chunker.pc = "idle"
    /\ chunker' = [IdleChunker EXCEPT !.pc = IF len = 0 THEN "done" ELSE "loop",
                                      !.len = len, !.chunk_size = chunk_size,
                                      !.overlap = overlap]
    /\ UNCHANGED <<tmVars, searchCall, sdVars, upVars, svcVars, notExt>>

\* One iteration of `while start < len(text)`: the chunk is appended; the
\* loop ends by the break or by its condition.
ChunkTextIteration ==
    /\ chunker.pc = "loop"
    /\ LET c == chunker
           end == Min(c.start + c.chunk_size, c.len)
           out == Append(c.chunks, [start |-> c.start, end |-> end])
           next == NextStart(c.start, end, c.chunk_size, c.overlap)
       IN chunker' =
            IF end >= c.len
              THEN [c EXCEPT !.chunks = out, !.iters = c.iters + 1, !.pc = "done"]
              ELSE [c EXCEPT !.chunks = out, !.iters = c.iters + 1, !.start = next,
                             !.pc = IF next < c.len THEN "loop" ELSE "done"]
    /\ UNCHANGED <<tmVars, searchCall, sdVars, upVars, svcVars, notExt>>

ChunkerNext ==
    \/ \E len \in 0..MaxTextLen, cs \in 1..MaxChunkSize, ov \in 0..MaxOverlap :
          ChunkTextCall(len, cs, ov)
    \/ ChunkTextIteration

(***************************************************************************)
(* Vector search over the committed chunks, for any top_k and threshold.   *)
(***************************************************************************)
TopKs == 1..MaxTopK
Thresholds == {0, 70}    \* similarity_threshold in hundredths, within 0..1

\* One call of search_by_embedding over a notebook.
SearchByEmbedding(n, k, t) ==
    /\ \E res \in search_by_embedding(n, NoSource, k, t) :
          searchCall' = [top_k |-> k, threshold |-> t, result |-> res]
    /\ UNCHANGED <<tmVars, chunker, sdVars, upVars, svcVars, notExt>>

SearchNext ==
    \/ \E u \in Users, n \in Notebooks : create_notebook(u, n)
    \/ \E s \in Sources, n \in Notebooks, len \in 1..MaxDocLen :
          \E m \in 1..MaxDocLen : \E e \in [1..m -> StoredSims] : IngestCompleted(s, n, len, e)
    \/ \E n \in Notebooks, k \in TopKs, t \in Thresholds : SearchByEmbedding(n, k, t)

(***************************************************************************)
(* Soft delete: the repository operations that set or clear deleted_at and *)
(* the list queries of the three entities.                                 *)
(***************************************************************************)
\* The rows of a list query, with those among them whose deleted_at is set.
Listing(entity, include_deleted, rows) ==
    [entity |-> entity, include_deleted |-> include_deleted, rows |-> rows,
     deleted_rows |-> rows \cap deleted]

\* NotebookService.delete_notebook: get_notebook for the owner raises
\* NotFoundError when no live notebook of the user has the id; otherwise
\* NotebookRepository.delete sets deleted_at and returns True.
delete_notebook(u, n) ==
    /\ LET found == n \in notebooks /\ n \notin deleted /\ OwnerOf(n) = u
       IN /\ deleted' = IF found THEN deleted \cup {n} ELSE deleted
          /\ nbCall' = [notebook_id |-> n, user_id |-> u, existed |-> n \in notebooks,
                        result |-> IF found THEN "True" ELSE "NotFoundError"]
    /\ UNCHANGED <<quota, batcher, embResult, loadVars, lastList, tmVars, chunker,
                   searchCall, upVars, notExt>>

\* NotebookService.restore_notebook: NotebookRepository.restore clears
\* deleted_at.
restore_notebook(u, n) ==
    /\ n \in notebooks /\ n \in deleted
    /\ OwnerOf(n) = u
    /\ deleted' = deleted \ {n}
    /\ UNCHANGED <<lastList, tmVars, chunker, searchCall, upVars, svcVars, notExt>>

\* SourceRepository.update(source_id, deleted_at=now): update sets every
\* attribute it is given except id.
source_update_deleted_at(s) ==
    /\ srcStatus[s] /= "absent"
    /\ deleted' = deleted \cup {s}
    /\ UNCHANGED <<lastList, tmVars, chunker, searchCall, upVars, svcVars, notExt>>

\* ConversationRepository.update(conversation_id, deleted_at=now): update sets
\* every attribute it is given except id and user_id.
conversation_update_deleted_at(c) ==
    /\ convNotebook[c] /= NoNotebook
    /\ deleted' = deleted \cup {c}
    /\ UNCHANGED <<lastList, tmVars, chunker, searchCall, upVars, svcVars, notExt>>

\* NotebookRepository.list_by_owner.
list_by_owner(owner_id, include_deleted) ==
    /\ lastList' = Listing("notebook", include_deleted,
          {n \in notebooks : /\ OwnerOf(n) = owner_id
                             /\ include_deleted \/ n \notin deleted})
    /\ UNCHANGED <<deleted, tmVars, chunker, searchCall, upVars, svcVars, notExt>>

\* SourceRepository.list_by_notebook.
source_list_by_notebook(notebook_id) ==
    /\ lastList' = Listing("source", FALSE,
          {s \in Sources : srcStatus[s] /= "absent" /\ srcNotebook[s] = notebook_id})
    /\ UNCHANGED <<deleted, tmVars, chunker, searchCall, upVars, svcVars, notExt>>

\* ConversationRepository.list_by_notebook.
conversation_list_by_notebook(notebook_id) ==
    /\ lastList' = Listing("conversation", FALSE,
          {c \in Convs : convNotebook[c] = notebook_id})
    /\ UNCHANGED <<deleted, tmVars, chunker, searchCall, upVars, svcVars, notExt>>

SoftDeleteNext ==
    \/ \E u \in Users, n \in Notebooks : create_notebook(u, n)
    \/ \E s \in ChatSources, n \in Notebooks, len \in 1..MaxDocLen :
          \E k \in 1..MaxDocLen : \E e \in [1..k -> {90}] : IngestCompleted(s, n, len, e)
    \/ \E u \in Users, c \in Convs, n \in Notebooks : create_conversation(u, c, n)
    \/ \E u \in Users, n \in Notebooks : delete_notebook(u, n)
    \/ \E u \in Users, n \in Notebooks : restore_notebook(u, n)
    \/ \E s \in ChatSources : source_update_deleted_at(s)
    \/ \E c \in Convs : conversation_update_deleted_at(c)
    \/ \E u \in Users, d \in BOOLEAN : list_by_owner(u, d)
    \/ \E n \in Notebooks : source_list_by_notebook(n)
    \/ \E n \in Notebooks : conversation_list_by_notebook(n)

(***************************************************************************)
(* Specifications                                                          *)
(***************************************************************************)
\* The state after start-up: an empty Redis, no call in progress.
(***************************************************************************)
(* POST /notebooks/{notebook_id}/sources: add_source_to_notebook.  A       *)
(* request carries a list of files, a url or a text, or files with one of  *)
(* the two.  A filename is the sequence of its parts between the dots.     *)
(***************************************************************************)
\* 50 * 1024 * 1024, the largest size in bytes a file may have.
MaxFileBytes == 52428800

Files ==
    { [name |-> <<"a", "pdf">>, content_type |-> "application/pdf",
       size |-> 5 * 1024 * 1024],
      [name |-> <<"b", "exe">>, content_type |-> "application/octet-stream",
       size |-> 1024],
      [name |-> <<"c", "txt">>, content_type |-> "text/plain",
       size |-> 60 * 1024 * 1024],
      [name |-> <<"d", "MD">>, content_type |-> "application/octet-stream",
       size |-> MaxFileBytes] }

UploadLists == UNION {[1..k -> Files] : k \in 0..MaxUploads}

\* str.lower() on the extensions that occur.
Lower(part) == IF part = "MD" THEN "md" ELSE part

\* file_ext: the lowered part after the last dot, '' without a dot.
file_ext(name) == IF Len(name) > 1 THEN Lower(name[Len(name)]) ELSE ""

allowed_types == {"application/pdf", "text/plain", "text/markdown"}

\* "upload.content_type not in allowed_types and file_ext not in [...]".
UnsupportedType(f) ==
    f.content_type \notin allowed_types /\ file_ext(f.name) \notin {"pdf", "txt", "md"}

\* The size test, were it to let every size pass.
ExceedsLimitNever(size) == FALSE

\* "upload.size > 50 * 1024 * 1024".
ExceedsLimit(size) == size > MaxFileBytes

\* The files of the list that reach the end of the loop body: neither
\* "continue" is taken.
NotSkipped(f) == ~UnsupportedType(f) /\ ~ExceedsLimit(f.size)

\* uuid.uuid4(): the ids not in use, in a fixed order.
SourceOrder == <<"s1", "s2">>
IsAbsent(s) == srcStatus[s] = "absent"
FreshIds(k) == SubSeq(SelectSeq(SourceOrder, IsAbsent), 1, k)

\* The local variable metadata is assigned in the body of the file loop and
\* nowhere else; the url/text path reads it.
metadata_bound(upload_list) == Len(upload_list) > 0

IdleUpload == [files |-> <<>>, body |-> "none", content_ok |-> TRUE,
               notebook_exists |-> FALSE, fault |-> FALSE, status |-> 0,
               data |-> <<>>, created |-> {}]

\* The whole handler, one request at a time.  Files: each one not skipped is
\* stored, gets a Source row in status processing and a queued process_task;
\* db.commit() at the end of the loop (a missing notebook violates the foreign
\* key); the answer lists the rows and the url or text of the request is not
\* looked at.  Url or text alone: 400 when the extraction raises or yields no
\* content, then the Source is built from metadata.  Any exception rolls the
\* session back and answers 500; the background tasks of a request that
\* raised are not run.
add_source_to_notebook(notebook_id, upload_list, body, content_ok, store_raises) ==
    /\ upload.status = 0
    /\ (upload_list /= <<>> \/ body = "none") => content_ok
    /\ LET kept == SelectSeq(upload_list, NotSkipped)
           k == IF upload_list /= <<>> THEN Len(kept) ELSE 1
           raises == IF upload_list /= <<>>
                       THEN Len(kept) > 0 /\ (store_raises \/ notebook_id \notin notebooks)
                       ELSE ~metadata_bound(upload_list) \/ notebook_id \notin notebooks
           status == IF upload_list = <<>> /\ body = "none" THEN 400
                     ELSE IF upload_list = <<>> /\ ~content_ok THEN 400
                     ELSE IF raises THEN 500
                     ELSE 201
           ids == IF status = 201 THEN FreshIds(k) ELSE <<>>
           rows == {ids[i] : i \in DOMAIN ids}
       IN /\ store_raises => upload_list /= <<>> /\ Len(kept) > 0
          /\ status = 201 => k <= Len(SelectSeq(SourceOrder, IsAbsent))
          /\ srcStatus' = [s \in Sources |-> IF s \in rows THEN "processing" ELSE srcStatus[s]]
          /\ srcNotebook' = [s \in Sources |-> IF s \in rows THEN notebook_id ELSE srcNotebook[s]]
          /\ task' = [s \in Sources |-> IF s \in rows THEN [IdleTask EXCEPT !.pc = "queued"]
                                                      ELSE task[s]]
          /\ upload' = [files |-> upload_list, body |-> body, content_ok |-> content_ok,
                        notebook_exists |-> notebook_id \in notebooks,
                        fault |-> store_raises, status |-> status,
                        data |-> [i \in DOMAIN ids |->
                                    [id |-> ids[i],
                                     title |-> IF upload_list /= <<>> THEN kept[i].name
                                                                      ELSE <<body>>,
                                     status |-> "processing"]],
                        created |-> {s \in Sources : srcStatus[s] = "absent"
                                                     /\ srcStatus'[s] /= "absent"}]
    /\ UNCHANGED <<notebooks, srcError, dbChunks, lastSearch, envVars, rlVars, llmVars,
                   convVars, chatVars, tenVars, tmVars, chunker, searchCall, sdVars,
                   svcVars>>

\* The response has been sent and the handler has returned.
UploadResponseSent ==
    /\ upload.status /= 0
    /\ upload' = IdleUpload
    /\ UNCHANGED <<dbVars, ingVars, envVars, rlVars, llmVars, convVars, chatVars,
                   tenVars, tmVars, chunker, searchCall, sdVars, svcVars>>

UploadNext ==
    \/ \E u \in Users, n \in Notebooks : create_notebook(u, n)
    \/ \E n \in Notebooks, l \in UploadLists, b \in {"none", "url", "text"},
          c, f \in BOOLEAN : add_source_to_notebook(n, l, b, c, f)
    \/ UploadResponseSent

(***************************************************************************)
(* The notebook limit of NotebookService.create_notebook for one user,     *)
(* whose notebooks are counted: committed rows with deleted_at unset       *)
(* (live) and set (deleted), and create requests that have passed the      *)
(* check and have not yet committed their row.  A request reads committed  *)
(* rows only.                                                              *)
(***************************************************************************)
\* limit=1000 of the list_by_owner call in create_notebook.
ListLimit == 1000

IdleQuota == [live |-> 0, deleted |-> 0, pending |-> 0, refused |-> 0]

QuotaRows == quota.live + quota.deleted + quota.pending

\* create_notebook up to the check: ForbiddenError when the list of live
\* notebooks has max_notebooks_per_user entries or more.
CreateNotebookCheck ==
    /\ quota.pending < MaxPending
    /\ QuotaRows < max_notebooks_per_user + MaxOver
    /\ LET user_notebooks == Min(quota.live, ListLimit)
       IN quota' = IF user_notebooks >= max_notebooks_per_user
                     THEN [quota EXCEPT !.refused = Min(@ + 1, MaxOver)]
                     ELSE [quota EXCEPT !.pending = @ + 1]
    /\ UNCHANGED <<nbCall, batcher, embResult, loadVars, notSvc>>

\* notebook_repo.create and the commit of the endpoint.
CreateNotebookCommit ==
    /\ quota.pending > 0
    /\ quota' = [quota EXCEPT !.pending = @ - 1, !.live = @ + 1]
    /\ UNCHANGED <<nbCall, batcher, embResult, loadVars, notSvc>>

\* delete_notebook of one of the user's live notebooks.
DeleteNotebookCommit ==
    /\ quota.live > 0
    /\ quota' = [quota EXCEPT !.live = @ - 1, !.deleted = @ + 1]
    /\ UNCHANGED <<nbCall, batcher, embResult, loadVars, notSvc>>

\* restore_notebook of one of the user's deleted notebooks: deleted_at is
\* cleared; the number of live notebooks is not looked at.
RestoreNotebookCommit ==
    /\ quota.deleted > 0
    /\ quota' = [quota EXCEPT !.deleted = @ - 1, !.live = @ + 1]
    /\ UNCHANGED <<nbCall, batcher, embResult, loadVars, notSvc>>

QuotaNext ==
    \/ CreateNotebookCheck
    \/ CreateNotebookCommit
    \/ DeleteNotebookCommit
    \/ RestoreNotebookCommit

(***************************************************************************)
(* _generate_embeddings_uncached: asyncio.gather over one task per batch,  *)
(* each task running process_batch inside "async with semaphore".  gather  *)
(* without return_exceptions raises the first exception of a task to the   *)
(* caller and leaves the other tasks running.                              *)
(***************************************************************************)
\* EMBEDDING_MAX_CONCURRENT_BATCHES, which no settings class defines: 3.
max_concurrent_batches == 3
max_retries == 3

BatchNums == 1..MaxBatches
TransportError == 0       \* the POST raised (httpx.HTTPError) instead of answering
ReplyStatuses == {200, 400, 401, 402, 403, 429, 500, TransportError}

IdleBatcher == [n |-> 0, gather |-> "idle",
                st |-> [i \in BatchNums |-> "none"],
                attempt |-> [i \in BatchNums |-> 0],
                sent |-> [i \in BatchNums |-> FALSE],
                authLast |-> [i \in BatchNums |-> FALSE],
                unstarted |-> {}]

\* The tasks inside "async with semaphore": acquired and not yet released.
Holders == {i \in BatchNums : batcher.st[i] \in {"holding", "posting"}}

\* The semaphore, were it to admit every task.
SemaphoreFreeAlways(holders) == TRUE

\* asyncio.Semaphore(self.max_concurrent_batches): acquire returns at once
\* while the counter is above 0.
SemaphoreFree(holders) == Cardinality(holders) < max_concurrent_batches

\* One pass of the loop body of process_batch after the reply with the given
\* status to attempt number attempt (from 0): "return", "retry" (sleep, then
\* the next attempt) or "raise".  An exception raised inside the try block,
\* the one for 401/402/403 included, is caught by "except Exception", which
\* raises only on the last attempt.
AfterReply(attempt, status) ==
    LET except == IF attempt = max_retries - 1 THEN "raise" ELSE "retry"
    IN IF status = TransportError THEN except
       ELSE IF status = 200 THEN "return"
       ELSE IF status \in {401, 403, 402} THEN except
       ELSE IF attempt < max_retries - 1 /\ status \in {429, 500, 502, 503, 504}
              THEN "retry"
       ELSE except

\* The call: the texts make n batches; gather starts one task per batch.
BatchCall(n) ==
    /\ batcher.gather = "idle"
    /\ batcher' = [IdleBatcher EXCEPT !.n = n, !.gather = "running",
                      !.st = [i \in BatchNums |-> IF i <= n THEN "waiting" ELSE "none"]]
    /\ UNCHANGED <<quota, nbCall, embResult, loadVars, notSvc>>

\* A task enters "async with semaphore"; waiters are served in the order of
\* their batch numbers.
BatchAcquire(i) ==
    /\ batcher.st[i] = "waiting"
    /\ \A j \in BatchNums : batcher.st[j] = "waiting" => i <= j
    /\ SemaphoreFree(Holders)
    /\ batcher' = [batcher EXCEPT !.st[i] = "holding"]
    /\ UNCHANGED <<quota, nbCall, embResult, loadVars, notSvc>>

\* The POST of an attempt is sent to the embedding endpoint.
BatchPost(i) ==
    /\ batcher.st[i] = "holding"
    /\ batcher' = [batcher EXCEPT !.st[i] = "posting", !.sent[i] = TRUE]
    /\ UNCHANGED <<quota, nbCall, embResult, loadVars, notSvc>>

\* The reply to the attempt in flight, handled once no task that can enter
\* the semaphore is left ready to run.  A task that returns or raises leaves
\* the semaphore; the first task to raise makes gather raise; gather returns
\* when every task has returned.
BatchReply(i, status) ==
    /\ batcher.st[i] = "posting"
    /\ ~(SemaphoreFree(Holders) /\ \E j \in BatchNums : batcher.st[j] = "waiting")
    /\ LET next == AfterReply(batcher.attempt[i], status)
           st == [batcher.st EXCEPT ![i] =
                    CASE next = "return" -> "done"
                      [] next = "retry" -> "holding"
                      [] OTHER -> "failed"]
       IN batcher' = [batcher EXCEPT
              !.st = st,
              !.attempt[i] = IF next = "retry" THEN @ + 1 ELSE 0,
              !.authLast[i] = status \in {401, 402, 403},
              !.gather = IF @ = "running" /\ next = "raise" THEN "raised"
                         ELSE IF @ = "running"
                                 /\ \A j \in 1..batcher.n : st[j] = "done" THEN "returned"
                         ELSE @,
              !.unstarted = IF batcher.gather = "running" /\ next = "raise"
                              THEN {j \in BatchNums : batcher.st[j] = "waiting"}
                              ELSE @]
    /\ UNCHANGED <<quota, nbCall, embResult, loadVars, notSvc>>

BatcherNext ==
    \/ \E n \in BatchNums : BatchCall(n)
    \/ \E i \in BatchNums : BatchAcquire(i)
    \/ \E i \in BatchNums : BatchPost(i)
    \/ \E i \in BatchNums, status \in ReplyStatuses : BatchReply(i, status)

(***************************************************************************)
(* generate_embeddings as a function of its texts, of the indices whose    *)
(* cache lookup gave a vector, of batch_size and of the order in which the *)
(* batch tasks complete.  The embedding endpoint answers a batch with one  *)
(* vector per input, in the order of the inputs.                           *)
(***************************************************************************)
InputLists == UNION {[1..n -> Texts] : n \in 0..MaxInputs}
BatchSizes == 1..MaxBatchSize

\* The permutations of 1..k.
Perms(k) == {f \in [1..k -> 1..k] : \A i, j \in 1..k : i /= j => f[i] /= f[j]}

\* indices_to_embed: the indices without a cached vector, ascending.
IndicesToEmbed(texts, hits) ==
    LET F[i \in 0..Len(texts)] ==
            IF i = 0 THEN <<>>
            ELSE IF i \in hits THEN F[i - 1] ELSE Append(F[i - 1], i)
    IN F[Len(texts)]

\* "texts[i : i + batch_size] for i in range(0, len(texts), batch_size)".
BatchesOf(texts, batch_size) ==
    [b \in 1..((Len(texts) + batch_size - 1) \div batch_size) |->
        SubSeq(texts, (b - 1) * batch_size + 1, Min(b * batch_size, Len(texts)))]

\* The list a gather would give, were its entries in the order in which the
\* tasks completed.
GatherResultsAsCompleted(batch_results, order) ==
    [k \in DOMAIN batch_results |-> batch_results[order[k]]]

\* asyncio.gather: the results in the order of the awaitables passed in,
\* whatever the order of completion.
GatherResults(batch_results, order) == batch_results

\* "[embedding for batch_result in results for embedding in batch_result]".
RECURSIVE Flatten(_)
Flatten(results) ==
    IF results = <<>> THEN <<>> ELSE Head(results) \o Flatten(Tail(results))

\* _generate_embeddings_uncached.
generate_embeddings_uncached(texts, batch_size, order) ==
    LET batches == BatchesOf(texts, batch_size)
        replies == [b \in DOMAIN batches |->
                      [k \in DOMAIN batches[b] |-> EmbeddingOf(batches[b][k])]]
    IN Flatten(GatherResults(replies, order))

\* generate_embeddings: all_embeddings starts as None everywhere, takes the
\* cached vectors, then the new ones through zip(indices_to_embed,
\* new_embeddings); the entries that are not None are returned.
generate_embeddings(texts, hits, batch_size, order) ==
    LET indices_to_embed == IndicesToEmbed(texts, hits)
        texts_to_embed == [k \in DOMAIN indices_to_embed |-> texts[indices_to_embed[k]]]
        new_embeddings == IF texts_to_embed = <<>> THEN <<>>
                          ELSE generate_embeddings_uncached(texts_to_embed, batch_size, order)
        zipped == 1..Min(Len(indices_to_embed), Len(new_embeddings))
        all_embeddings == [i \in DOMAIN texts |->
            IF i \in hits THEN EmbeddingOf(texts[i])
            ELSE IF \E k \in zipped : indices_to_embed[k] = i
                   THEN new_embeddings[CHOOSE k \in zipped : indices_to_embed[k] = i]
            ELSE NoVec]
        notNone(e) == e /= NoVec
    IN SelectSeq(all_embeddings, notNone)

\* One call, with the batches completing in the given order.
GenerateEmbeddings(texts, hits, batch_size, order) ==
    /\ ~embResult.called
    /\ hits \subseteq DOMAIN texts
    /\ embResult' = [called |-> TRUE, texts |-> texts, hits |-> hits,
                     batch_size |-> batch_size, order |-> order,
                     result |-> generate_embeddings(texts, hits, batch_size, order)]
    /\ UNCHANGED <<quota, nbCall, batcher, loadVars, notSvc>>

AssembleNext ==
    \E texts \in InputLists, batch_size \in BatchSizes :
        \E hits \in SUBSET DOMAIN texts :
            \E order \in Perms((Len(texts) - Cardinality(hits) + batch_size - 1)
                                  \div batch_size) :
                GenerateEmbeddings(texts, hits, batch_size, order)

(***************************************************************************)
(* send_message_with_rag, step 1: asyncio.gather of get_conversation (one  *)
(* statement) and get_conversation_messages (get_conversation, then        *)
(* list_by_conversation), both on the session of the request.  A task runs *)
(* until it waits for the database; the tasks of a gather start in the     *)
(* order given.  A statement is in flight from the call of session.execute *)
(* until it returns.                                                       *)
(***************************************************************************)
SessReqs == 1..MaxSessions
IdleSess == [pc |-> "idle", t1 |-> "ready", t2 |-> "ready"]

\* The statements in flight on the session of request r.
InFlight(r) ==
    (IF sess[r].t1 = "executing" THEN {"t1"} ELSE {})
      \cup (IF sess[r].t2 \in {"exec1", "exec2"} THEN {"t2"} ELSE {})

\* "await asyncio.gather(conversation_task, messages_task)": both coroutines
\* become tasks.
SessGather(r) ==
    /\ sess[r].pc = "idle"
    /\ sess' = [sess EXCEPT ![r].pc = "gathered"]
    /\ UNCHANGED <<thread, llmInput, lateVars, quota, nbCall, batcher, embResult, notSvc>>

\* The first task calls session.execute for the conversation.
SessT1Execute(r) ==
    /\ sess[r].pc = "gathered" /\ sess[r].t1 = "ready"
    /\ sess' = [sess EXCEPT ![r].t1 = "executing"]
    /\ UNCHANGED <<thread, llmInput, lateVars, quota, nbCall, batcher, embResult, notSvc>>

\* The statement of the first task returns, once the second task has run up
\* to its own wait.
SessT1Returns(r) ==
    /\ sess[r].t1 = "executing" /\ sess[r].t2 /= "ready"
    /\ sess' = [sess EXCEPT ![r].t1 = "done"]
    /\ UNCHANGED <<thread, llmInput, lateVars, quota, nbCall, batcher, embResult, notSvc>>

\* The second task calls session.execute, for its first or its second
\* statement.  With a statement of the other task in flight on the session
\* the call is either held back by the driver until the connection is free
\* or rejected with an error, by the state the session and driver are in.
SessT2Execute(r, rejected) ==
    /\ sess[r].pc \in {"gathered", "failed"}
    /\ sess[r].t1 /= "ready" /\ sess[r].t2 \in {"ready", "between"}
    /\ rejected => InFlight(r) /= {}
    /\ sess' = [sess EXCEPT
          ![r].t2 = IF rejected THEN "error"
                    ELSE IF @ = "ready" THEN "exec1" ELSE "exec2",
          ![r].pc = IF rejected THEN "failed" ELSE @]
    /\ UNCHANGED <<thread, llmInput, lateVars, quota, nbCall, batcher, embResult, notSvc>>

\* A statement of the second task returns.
SessT2Returns(r) ==
    /\ sess[r].t2 \in {"exec1", "exec2"}
    /\ sess' = [sess EXCEPT ![r].t2 = IF @ = "exec1" THEN "between" ELSE "done"]
    /\ UNCHANGED <<thread, llmInput, lateVars, quota, nbCall, batcher, embResult, notSvc>>

\* Both tasks have returned: gather returns the conversation and the messages.
SessJoin(r) ==
    /\ sess[r].pc = "gathered" /\ sess[r].t1 = "done" /\ sess[r].t2 = "done"
    /\ sess' = [sess EXCEPT ![r].pc = "joined"]
    /\ UNCHANGED <<thread, llmInput, lateVars, quota, nbCall, batcher, embResult, notSvc>>

SessionNext ==
    \/ \E r \in SessReqs : SessGather(r)
    \/ \E r \in SessReqs : SessT1Execute(r)
    \/ \E r \in SessReqs : SessT1Returns(r)
    \/ \E r \in SessReqs, rejected \in BOOLEAN : SessT2Execute(r, rejected)
    \/ \E r \in SessReqs : SessT2Returns(r)
    \/ \E r \in SessReqs : SessJoin(r)

(***************************************************************************)
(* send_message_with_rag, step 5: the history given to the LLM.  The       *)
(* messages of the conversation have distinct created_at and are known by  *)
(* their position in that order.                                           *)
(***************************************************************************)
\* limit=10 of get_conversation_messages and the slice [-5:].
HistoryLimit == 10
HistoryTail == 5
Roles == {"user", "assistant"}

\* MessageRepository.list_by_conversation: ORDER BY created_at (ascending),
\* OFFSET skip, LIMIT limit.
list_by_conversation(messages, skip, limit) ==
    SubSeq(messages, skip + 1, Min(skip + limit, Len(messages)))

\* The Python slice q[-n:].
LastN(q, n) == SubSeq(q, Max(1, Len(q) - n + 1), Len(q))

\* A message is added to the conversation.
AddMessage(role) ==
    /\ Len(thread) < MaxThread
    /\ thread' = Append(thread, [id |-> Len(thread) + 1, role |-> role])
    /\ UNCHANGED <<sess, llmInput, lateVars, quota, nbCall, batcher, embResult, notSvc>>

\* messages_for_llm: the system prompt, previous_messages[-5:], the new user
\* message.
BuildLLMInput ==
    /\ LET previous_messages == list_by_conversation(thread, 0, HistoryLimit)
       IN llmInput' = [seen |-> Len(thread),
                       messages |-> <<[id |-> 0, role |-> "system"]>>
                                    \o LastN(previous_messages, HistoryTail)
                                    \o <<[id |-> Len(thread) + 1, role |-> "user"]>>]
    /\ UNCHANGED <<sess, thread, lateVars, quota, nbCall, batcher, embResult, notSvc>>

HistoryNext ==
    \/ \E role \in Roles : AddMessage(role)
    \/ BuildLLMInput

(***************************************************************************)
(* Repeated processing of one Source.  process_source_file reads the       *)
(* source, sets it to processing and ingests the text again: it neither    *)
(* looks at the status the source has nor deletes the chunks the source    *)
(* already has, and bulk_create adds one row per chunk; the index of the   *)
(* chunks table on (source_id, chunk_index) is not unique.                 *)
(***************************************************************************)
notRun == <<envVars, rlVars, llmVars, convVars, chatVars, tenVars, tmVars, chunker,
            searchCall, sdVars, upVars, quota, nbCall, batcher, embResult, sess,
            thread, llmInput, rtok, refreshCall>>

\* process_task is dispatched once more for a source whose earlier task ended.
ProcessSourceAgain(s) ==
    /\ task[s].pc = "ended"
    /\ runs[s] < MaxRuns
    /\ runs' = [runs EXCEPT ![s] = @ + 1]
    /\ task' = [task EXCEPT ![s] = [IdleTask EXCEPT !.pc = "queued"]]
    /\ UNCHANGED <<dbVars, lastSearch, notRun>>

ReprocessNext ==
    \/ \E u \in Users, n \in Notebooks : create_notebook(u, n)
    \/ \E s \in Sources, n \in Notebooks : IngestUpload(s, n)
    \/ \E s \in Sources : TaskStart(s)
    \/ \E s \in Sources, len \in 0..MaxDocLen : TaskFetchOk(s, len)
    \/ \E s \in Sources : TaskFetchFails(s)
    \/ \E s \in Sources, n \in 1..MaxDocLen : \E e \in [1..n -> {90}] : TaskEmbedOk(s, e)
    \/ \E s \in Sources : TaskEmbedFails(s)
    \/ \E s \in Sources : TaskStoreOk(s)
    \/ \E s \in Sources : TaskStoreFails(s)
    \/ \E s \in Sources : TaskCommit(s)
    \/ \E s \in Sources : ProcessSourceAgain(s)

(***************************************************************************)
(* Refresh tokens of one user.  A request runs on its own session and      *)
(* commits when the endpoint returns; a session sees what was committed    *)
(* when it reads.  refresh_tokens reads the row with a plain SELECT, and   *)
(* the UPDATE of revoke_refresh_token sets is_revoked whatever it is by    *)
(* then.  Every new token carries a random jti, so no two are equal.       *)
(***************************************************************************)
Tokens == 1..MaxTokens
RefreshReqs == 1..MaxRefreshReqs
NoToken == 0
IdleRefresh == [pc |-> "idle", token |-> NoToken, result |-> "none",
                new_refresh_token |-> NoToken, revokedAtExchange |-> FALSE]

notAuth == <<runs, sess, thread, llmInput, quota, nbCall, batcher, embResult, notSvc>>

\* The token create_rt_token returns: one that no row holds.
FreshToken ==
    CHOOSE t \in Tokens : rtok[t] = "absent" /\ \A u \in 1..(t - 1) : rtok[u] /= "absent"

\* login: create_refresh_token stores the token of the new session.
login ==
    /\ \E t \in Tokens : rtok[t] = "absent"
    /\ rtok' = [rtok EXCEPT ![FreshToken] = "valid"]
    /\ UNCHANGED <<refreshCall, notAuth>>

\* refresh_tokens up to the revocation: the row is read and checked, then the
\* user is read and checked.
RefreshRead(r, refresh_token, expired, user_active) ==
    /\ refreshCall[r].pc = "idle"
    /\ LET rt == rtok[refresh_token]
           error == IF rt = "absent" THEN "TOKEN_INVALID"
                    ELSE IF rt = "revoked" THEN "TOKEN_INVALID"
                    ELSE IF expired THEN "TOKEN_EXPIRED"
                    ELSE IF ~user_active THEN "FORBIDDEN"
                    ELSE "none"
       IN refreshCall' = [refreshCall EXCEPT ![r] =
              IF error = "none"
                THEN [IdleRefresh EXCEPT !.pc = "checked", !.token = refresh_token]
                ELSE [IdleRefresh EXCEPT !.pc = "done", !.token = refresh_token,
                                         !.result = error]]
    /\ UNCHANGED <<rtok, notAuth>>

\* refresh_tokens from the revocation on, and the commit of the request: the
\* old row is set revoked, the new token is stored and returned.  The row lock
\* of the UPDATE holds a second request back until the first has committed.
RefreshExchange(r) ==
    /\ refreshCall[r].pc = "checked"
    /\ \E t \in Tokens : rtok[t] = "absent"
    /\ LET old == refreshCall[r].token
       IN /\ rtok' = [rtok EXCEPT ![old] = "revoked", ![FreshToken] = "valid"]
          /\ refreshCall' = [refreshCall EXCEPT ![r] =
                [@ EXCEPT !.pc = "done", !.result = "tokens",
                          !.new_refresh_token = FreshToken,
                          !.revokedAtExchange = (rtok[old] = "revoked")]]
    /\ UNCHANGED notAuth

\* The response of a refresh request has been sent; the record keeps what it
\* answered until the next request.
RefreshResponseSent(r) ==
    /\ refreshCall[r].pc = "done"
    /\ refreshCall' = [refreshCall EXCEPT ![r].pc = "idle"]
    /\ UNCHANGED <<rtok, notAuth>>

\* logout with the refresh token of the cookie (revoke_refresh_token), or
\* without one (revoke_all_user_tokens).
logout(refresh_token) ==
    /\ rtok' = [t \in Tokens |->
          IF rtok[t] /= "absent" /\ (refresh_token = NoToken \/ t = refresh_token)
            THEN "revoked" ELSE rtok[t]]
    /\ UNCHANGED <<refreshCall, notAuth>>

RefreshNext ==
    \/ login
    \/ \E r \in RefreshReqs, t \in Tokens, expired \in BOOLEAN, user_active \in BOOLEAN :
          RefreshRead(r, t, expired, user_active)
    \/ \E r \in RefreshReqs : RefreshExchange(r)
    \/ \E r \in RefreshReqs : RefreshResponseSent(r)
    \/ \E t \in Tokens \cup {NoToken} : logout(t)

Init ==
    /\ cacheUp = TRUE
    /\ cacheWasDown = FALSE
    /\ rlCount = [k \in RlKeys |-> 0]
    /\ rlTtl = [k \in RlKeys |-> 0]
    /\ rlAllowed = [k \in RlKeys |-> 0]
    /\ rlFailOpen = [k \in RlKeys |-> 0]
    /\ rlIssued = 0
    /\ rlLast = [status |-> 0, remaining |-> 0, limited |-> FALSE]
    /\ chatCache = [k \in ChatKeys |-> NoValue]
    /\ embedCache = [t \in Texts |-> NoVec]
    /\ chatCall = [p \in ChatCalls |-> IdleChat]
    /\ embCall = [e \in EmbedCalls |-> IdleEmbed]
    /\ chatUpstream = [k \in ChatKeys |-> 0]
    /\ embSent = [t \in Texts |-> 0]
    /\ srcStatus = [s \in Sources |-> "absent"]
    /\ srcError = [s \in Sources |-> ""]
    /\ srcNotebook = [s \in Sources |-> NoNotebook]
    /\ dbChunks = [s \in Sources |-> <<>>]
    /\ task = [s \in Sources |-> IdleTask]
    /\ lastSearch = <<>>
    /\ notebooks = {}
    /\ convNotebook = [c \in Convs |-> NoNotebook]
    /\ dbMessages = <<>>
    /\ send = [r \in Sends |-> IdleSend]
    /\ dbClock = 0
    /\ lastListing = <<>>
    /\ history = {}
    /\ lastOp = [op |-> "none", actor |-> NoUser, owner |-> NoUser, result |-> "none"]
    /\ timed = [r \in Timed |-> IdleTimed]
    /\ chunker = IdleChunker
    /\ searchCall = [top_k |-> 1, threshold |-> 0, result |-> <<>>]
    /\ deleted = {}
    /\ upload = IdleUpload
    /\ quota = IdleQuota
    /\ batcher = IdleBatcher
    /\ sess = [r \in SessReqs |-> IdleSess]
    /\ thread = <<>>
    /\ llmInput = [seen |-> 0, messages |-> <<>>]
    /\ runs = [s \in Sources |-> 0]
    /\ rtok = [t \in Tokens |-> "absent"]
    /\ refreshCall = [r \in RefreshReqs |-> IdleRefresh]
    /\ embResult = [called |-> FALSE, texts |-> <<>>, hits |-> {}, batch_size |-> 1,
                    order |-> <<>>, result |-> <<>>]
    /\ nbCall = [notebook_id |-> NoNotebook, user_id |-> NoUser, existed |-> FALSE,
                 result |-> "none"]
    /\ lastList = [entity |-> "none", include_deleted |-> FALSE, rows |-> {},
                   deleted_rows |-> {}]

SpecRL == Init /\ [][RlNext]_vars
SpecChatCache == Init /\ [][ChatCacheNext]_vars
SpecEmbed == Init /\ [][EmbedNext]_vars
SpecIngest == Init /\ [][IngestNext]_vars
SpecChat == Init /\ [][ChatNext]_vars
SpecTenancy == Init /\ [][TenancyNext]_vars
SpecTimeout == Init /\ [][TimeoutNext]_vars
SpecChunker == Init /\ [][ChunkerNext]_vars
SpecSearch == Init /\ [][SearchNext]_vars
SpecSoftDelete == Init /\ [][SoftDeleteNext]_vars
SpecUpload == Init /\ [][UploadNext]_vars
SpecQuota == Init /\ [][QuotaNext]_vars
SpecBatcher == Init /\ [][BatcherNext]_vars
SpecAssemble == Init /\ [][AssembleNext]_vars
SpecSession == Init /\ [][SessionNext]_vars
SpecHistory == Init /\ [][HistoryNext]_vars
SpecReprocess == Init /\ [][ReprocessNext]_vars
SpecRefresh == Init /\ [][RefreshNext]_vars

(***************************************************************************)
(* Claims                                                                  *)
(***************************************************************************)

\* C1: the requests of one identity to one path that the rate limiter allows
\* through its script (that is, while the cache is reachable) within one window
\* never exceed the configured limit, whatever the order in which concurrent
\* requests reach the script.
C1_AllowedWithinLimit ==
    \A k \in RlKeys : rlAllowed[k] <= default_limit

\* A window in which the limit was reached and a further request was denied.
C1_Witness ==
    /\ \E k \in RlKeys : rlAllowed[k] = default_limit /\ rlCount[k] = default_limit
    /\ rlLast.status = 429

\* C9: for temperature <= 0.7, identical chat calls issued within the cache
\* TTL make at most one upstream request, in any interleaving.  Stated for the
\* runs most favourable to the claim: the cache was reachable throughout, no
\* call of the key failed and no reply was empty.
C9_AtMostOneUpstream ==
    \A k \in ChatKeys :
        (/\ Cacheable(k[2])
         /\ ~cacheWasDown
         /\ \A p \in ChatCalls :
               (chatCall[p].pc /= "idle" /\ <<chatCall[p].msgs, chatCall[p].temp>> = k)
                  => chatCall[p].pc /= "error" /\ chatCall[p].result /= "")
        => chatUpstream[k] <= 1

\* C10: within the TTL a text is sent to the embedding API once, however often
\* it occurs in one generate_embeddings call or across calls.  Stated for the
\* runs in which the cache was reachable throughout; embSent counts the inputs
\* of answered requests only.
C10_OneEntryPerText ==
    ~cacheWasDown => \A t \in Texts : embSent[t] <= 1

\* C2: once a dispatched process_task has ended, the committed status of its
\* Source is completed or failed, never processing.
C2_TerminalStatus ==
    \A s \in Sources :
        task[s].pc = "ended" => srcStatus[s] \in {"completed", "failed"}

\* C5: every chunk a retrieval returned belongs to a Source whose committed
\* status is completed.
C5_OnlyCompletedRetrieved ==
    \A i \in DOMAIN lastSearch : srcStatus[lastSearch[i].src] = "completed"

\* A retrieval returned a chunk from a notebook that also holds a Source in
\* status processing or failed.
C5_Witness ==
    /\ lastSearch /= <<>>
    /\ \E s \in Sources :
          /\ srcNotebook[s] = srcNotebook[lastSearch[1].src]
          /\ srcStatus[s] \in {"processing", "failed"}

C3_NoForeignChunks ==
    \A i \in DOMAIN dbMessages :
        dbMessages[i].role = "assistant" =>
            \A k \in DOMAIN dbMessages[i].chunk_ids :
                OwnerOf(srcNotebook[dbMessages[i].chunk_ids[k][1]]) = UserOf(dbMessages[i].conv)

\* C4: an operation on an entity performed as a user other than its owner
\* raises NotFoundError.
C4_ForeignAccessNotFound ==
    (lastOp.owner /= NoUser /\ lastOp.owner /= lastOp.actor)
        => lastOp.result = "NotFoundError"

\* C6: once a send_message request has ended (committed, failed or cancelled),
\* its user message and its assistant message are both committed or neither is.
C6_BothOrNeither ==
    \A r \in Sends :
        send[r].pc \in {"done", "failed"} =>
            ((\E i \in DOMAIN dbMessages :
                 dbMessages[i].req = r /\ dbMessages[i].role = "user")
             <=> (\E i \in DOMAIN dbMessages :
                 dbMessages[i].req = r /\ dbMessages[i].role = "assistant"))

\* A request that failed after it had flushed its user message, with none of
\* its messages committed.
C6_Witness ==
    \E r \in Sends :
        /\ send[r].pc = "failed"
        /\ send[r].flushed >= 1
        /\ ~ \E i \in DOMAIN dbMessages : dbMessages[i].req = r

\* C7: in the message listing of a conversation the user message of every
\* exchange precedes the assistant message of that exchange.
C7_UserBeforeAssistant ==
    \A i, j \in DOMAIN lastListing :
        (/\ lastListing[i].req = lastListing[j].req
         /\ lastListing[i].role = "user"
         /\ lastListing[j].role = "assistant") => i < j

\* C11: a request to a limited path that is dispatched while the cache behind
\* the rate limiter is unreachable or raises is allowed through: its response
\* is never the 429 of the limiter.
C11_FailOpen ==
    [][(~cacheUp /\ rlIssued' = rlIssued + 1 /\ rlLast'.limited)
          => rlLast'.status /= 429]_vars

\* A request let through during an outage although the counter of its key
\* stood at the limit.
C11_Witness ==
    /\ ~cacheUp
    /\ rlLast.limited /\ rlLast.status = 200
    /\ \E k \in RlKeys : rlFailOpen[k] >= 1 /\ rlCount[k] >= default_limit

\* C12: a send_message request with use_rag whose retrieval failed (the query
\* embedding or the vector search), and in which no other step failed, still
\* succeeds: it does not end in an error, and when it reaches its commit
\* both of its messages are there to be persisted, with empty chunk_ids.
C12_RetrievalFailureDegrades ==
    \A r \in Sends :
        (send[r].retrieval = "failed" /\ ~send[r].fault) =>
            /\ send[r].pc /= "failed"
            /\ send[r].pc = "commit" =>
                  \A role \in {"user", "assistant"} :
                      \E i \in DOMAIN send[r].pending :
                          /\ send[r].pending[i].role = role
                          /\ send[r].pending[i].chunk_ids = <<>>

\* C13: a send_message request with use_rag whose chat-completion call failed
\* surfaces no error for it (it ends in an error only when another step
\* failed), and once it has ended well its assistant message, holding the
\* canned apology, is persisted together with the user message.
C13_ApologyOnLLMFailure ==
    \A r \in Sends :
        send[r].llm = "failed" =>
            /\ send[r].pc = "failed" => (send[r].fault \/ send[r].tx = "aborted")
            /\ send[r].pc = "done" =>
                  /\ \E i \in DOMAIN dbMessages :
                        /\ dbMessages[i].req = r
                        /\ dbMessages[i].role = "assistant"
                        /\ dbMessages[i].content = Apology
                  /\ \E i \in DOMAIN dbMessages :
                        dbMessages[i].req = r /\ dbMessages[i].role = "user"

\* A request whose chat-completion call failed and which ended well, the
\* apology committed as its assistant message.
C13_Witness ==
    \E r \in Sends :
        /\ send[r].pc = "done"
        /\ send[r].llm = "failed"
        /\ \E i \in DOMAIN dbMessages :
              dbMessages[i].req = r /\ dbMessages[i].content = Apology

\* C14: a request whose deadline elapsed before its handler completed gets
\* the response 504 with the error code REQUEST_TIMEOUT, and the in-flight
\* work of its handler is cancelled: the handler does nothing after that.
C14_DeadlineCancelsHandler ==
    \A r \in Timed :
        timed[r].status = 504 =>
            /\ timed[r].code = "REQUEST_TIMEOUT"
            /\ timed[r].handler = "cancelled"
            /\ timed[r].late = 0

\* C15: for any text, any chunk_size >= 1 and any overlap >= 0 (overlap >=
\* chunk_size included) the chunker terminates (every iteration of its loop
\* moves start forward, and start stays below len(text), so there are at most
\* len(text) iterations), and the chunks it returns have weakly increasing
\* offsets and cover [0, len(text)); the result is the one _chunk_text gives.
C15_ChunkerTerminatesAndCovers ==
    LET c == chunker
    IN /\ c.pc = "loop" => (c.start < c.len /\ c.iters <= c.start)
       /\ c.pc = "done" =>
             /\ c.iters <= c.len
             /\ c.chunks = _chunk_text(c.len, c.chunk_size, c.overlap)
             /\ \A i \in 1..(Len(c.chunks) - 1) :
                   /\ c.chunks[i].start <= c.chunks[i + 1].start
                   /\ c.chunks[i].end <= c.chunks[i + 1].end
             /\ \A x \in 0..(c.len - 1) :
                   \E i \in DOMAIN c.chunks :
                       c.chunks[i].start <= x /\ x < c.chunks[i].end

\* A finished call with overlap >= chunk_size that returned several chunks.
C15_Witness ==
    /\ chunker.pc = "done"
    /\ chunker.overlap >= chunker.chunk_size
    /\ Len(chunker.chunks) >= 3

\* C16: search_by_embedding with top_k = k and similarity_threshold = t
\* returns at most k chunks, every one with a similarity_score >= t, in
\* non-increasing order of similarity.
C16_TopKThresholdOrder ==
    LET res == searchCall.result
    IN /\ Len(res) <= searchCall.top_k
       /\ \A i \in DOMAIN res : res[i].score >= searchCall.threshold
       /\ \A i, j \in DOMAIN res : i < j => res[i].score >= res[j].score

\* A call that returned top_k = 2 chunks of different similarity while the
\* notebook held a further chunk below the threshold.
C16_Witness ==
    LET res == searchCall.result
    IN /\ searchCall.top_k = 2 /\ Len(res) = 2
       /\ res[1].score > res[2].score
       /\ \E s \in Sources : \E i \in DOMAIN dbChunks[s] :
             /\ srcNotebook[s] = srcNotebook[res[1].src]
             /\ _calculate_cosine_similarity(dbChunks[s][i].sim) < searchCall.threshold

\* C17: a list query over notebooks, sources or conversations that does not
\* ask for deleted rows returns no row whose deleted_at is set.
C17_ListsExcludeDeleted ==
    ~lastList.include_deleted => lastList.deleted_rows = {}

\* C20: every Source whose committed status is failed carries a non-empty
\* metadata error, the reason _mark_failed wrote in the same transaction.
C20_FailedHasError ==
    \A s \in Sources : srcStatus[s] = "failed" => srcError[s] /= ""

\* A task has ended and its source is committed as failed.
C20_Witness ==
    \E s \in Sources : task[s].pc = "ended" /\ srcStatus[s] = "failed"

\* C18: a request answered without a storage fault, into a notebook that
\* exists, has created exactly one Source per accepted input (each file of an
\* allowed type of at most 50 MiB, a url or a text whose content was
\* extracted), each in status processing with its background task queued, and
\* is answered 201 when there is such an input.
C18_OneSourcePerAcceptedInput ==
    LET Accepted(f) ==
            /\ f.content_type \in allowed_types \/ file_ext(f.name) \in {"pdf", "txt", "md"}
            /\ f.size <= MaxFileBytes
        inputs == Len(SelectSeq(upload.files, Accepted))
                    + (IF upload.body /= "none" /\ upload.content_ok THEN 1 ELSE 0)
    IN (upload.status /= 0 /\ ~upload.fault /\ upload.notebook_exists) =>
          /\ Cardinality(upload.created) = inputs
          /\ \A s \in upload.created : srcStatus[s] = "processing" /\ task[s].pc = "queued"
          /\ inputs > 0 => upload.status = 201

\* C19: a file list answered without a storage fault is answered 201 whatever
\* files it had to skip; the Source rows the request created are exactly the
\* rows of the response data, and the data lists, in order, the files of an
\* allowed type of at most 50 MiB and no other.
C19_BulkSkipsRejected ==
    LET Accepted(f) ==
            /\ f.content_type \in allowed_types \/ file_ext(f.name) \in {"pdf", "txt", "md"}
            /\ f.size <= MaxFileBytes
        acc == SelectSeq(upload.files, Accepted)
    IN (/\ upload.status /= 0
        /\ upload.files /= <<>>
        /\ ~upload.fault
        /\ upload.notebook_exists \/ acc = <<>>) =>
          /\ upload.status = 201
          /\ Len(upload.data) = Len(acc)
          /\ \A i \in DOMAIN acc : upload.data[i].title = acc[i].name
          /\ upload.created = {upload.data[i].id : i \in DOMAIN upload.data}
          /\ Cardinality(upload.created) = Len(acc)
          /\ \A s \in upload.created : srcStatus[s] = "processing"

\* Three files, one of an unsupported type and one above the limit, were
\* answered 201 with the one remaining file.
C19_Witness ==
    /\ upload.status = 201
    /\ Len(upload.files) = 3
    /\ \E i \in DOMAIN upload.files : UnsupportedType(upload.files[i])
    /\ \E i \in DOMAIN upload.files : upload.files[i].size > MaxFileBytes
    /\ Len(upload.data) = 1
    /\ Cardinality(upload.created) = 1

\* C21: the user's live notebooks never number more than
\* max_notebooks_per_user, whatever creates, deletes and restores have run
\* and however the creates interleave.
C21_LiveWithinLimit ==
    quota.live <= max_notebooks_per_user

\* C22: delete_notebook for an id no notebook row has returns False.
C22_DeleteMissingReturnsFalse ==
    (nbCall.result /= "none" /\ ~nbCall.existed) => nbCall.result = "False"

\* C23: the batches that had not entered the semaphore when gather raised
\* (a batch had failed on its last attempt) are never sent upstream.
C23_UnstartedNeverSent ==
    \A i \in batcher.unstarted : ~batcher.sent[i]

\* C24: a batch whose attempt was answered 401, 402 or 403 raises at once:
\* its task does not go on to a further attempt.
C24_AuthErrorNotRetried ==
    \A i \in BatchNums : batcher.authLast[i] => batcher.st[i] = "failed"

\* C29: at most max_concurrent_batches requests of one call are in flight.
C29_InFlightBounded ==
    Cardinality({i \in BatchNums : batcher.st[i] = "posting"}) <= max_concurrent_batches

\* max_concurrent_batches requests are in flight while a further batch waits
\* for the semaphore.
C29_Witness ==
    /\ Cardinality({i \in BatchNums : batcher.st[i] = "posting"}) = max_concurrent_batches
    /\ \E i \in BatchNums : batcher.st[i] = "waiting"

\* C25: generate_embeddings returns one vector per input text, the vector of
\* the text at each index, whichever texts were cache hits, wherever the
\* batches are cut and in whatever order they complete.
C25_OneVectorPerText ==
    embResult.called =>
        /\ Len(embResult.result) = Len(embResult.texts)
        /\ \A i \in DOMAIN embResult.texts :
              embResult.result[i] = EmbeddingOf(embResult.texts[i])

\* A call with a cache hit between two misses of different texts, which went
\* out in two batches that completed last one first.
C25_Witness ==
    /\ embResult.called
    /\ Len(embResult.texts) >= 3
    /\ 2 \in embResult.hits /\ 1 \notin embResult.hits /\ 3 \notin embResult.hits
    /\ embResult.texts[1] /= embResult.texts[3]
    /\ embResult.batch_size = 1
    /\ Len(embResult.order) >= 2 /\ embResult.order[1] = Len(embResult.order)

\* C26: on the session of a request at most one statement is in flight at
\* any time.
C26_OneOperationInFlight ==
    \A r \in SessReqs : Cardinality(InFlight(r)) <= 1

\* C28: the messages given to the LLM are the system prompt, then the last
\* five messages the conversation had when the request came, in their order,
\* then the new user message.
C28_HistoryIsMostRecent ==
    llmInput.messages /= <<>> =>
        LET n == llmInput.seen
            recent == SubSeq(thread, Max(1, n - 4), n)
            m == llmInput.messages
        IN /\ Len(m) = Len(recent) + 2
           /\ m[1].role = "system"
           /\ \A i \in DOMAIN recent : m[i + 1] = recent[i]
           /\ m[Len(m)] = [id |-> n + 1, role |-> "user"]

\* C27: (source_id, chunk_index) is unique among the stored chunks, also after
\* the processing of a Source has run more than once.
C27_ChunkIndexUnique ==
    \A s \in Sources : \A i, j \in DOMAIN dbChunks[s] :
        i /= j => dbChunks[s][i].idx /= dbChunks[s][j].idx

\* C30: a refresh token yields new tokens at most once: no refresh_tokens call
\* returns tokens for a token that, by the time of the exchange, was already
\* exchanged or revoked by logout.
C30_RefreshTokenUsedOnce ==
    \A r \in RefreshReqs :
        refreshCall[r].result = "tokens" => ~refreshCall[r].revokedAtExchange

====
